---------------------------- MODULE Spec2Model ----------------------------
(***************************************************************************)
(* A model of the hyphertext agent backend: the orchestrator               *)
(* (agents/orchestrator.py), the single-tool edit agent (agents.py), the   *)
(* patch executor (agents/tools/html_tools.py) and the persistence calls   *)
(* they make (database.py).                                                *)
(*                                                                         *)
(* Text is a sequence of one-character strings.  A request is a run of     *)
(* run_orchestrator or run_edit_agent; one action models one step of the   *)
(* coroutine, cut at its calls to the model backend, the search provider   *)
(* and the database, each of which may raise.                              *)
(***************************************************************************)
EXTENDS Integers, Sequences, FiniteSets, TLC

VARIABLES
    run,                    \* per request: the coroutine's locals and position
    page,                   \* the pages row: html_content, html_summary, component_map
    msg_status,             \* chat_messages.status of each request's user message
    replies,                \* assistant rows inserted into chat_messages
    edit_history,           \* edit_history rows, in insertion order
    clarification_threads,  \* clarification_threads rows, in insertion order
    page_versions,          \* page_versions rows, in insertion order
    obs,                    \* per request: what it did so far (calls, writes)
    pure,                   \* a pure function under test: its inputs and result
    page_assets             \* page_assets rows of the page, in insertion order

vars == <<run, page, msg_status, replies, edit_history, clarification_threads,
          page_versions, obs, pure, page_assets>>

dbvars == <<page, msg_status, replies, edit_history, clarification_threads,
            page_versions>>

(***************************************************************************)
(* Bounds of the model.                                                    *)
(***************************************************************************)
MaxDocLen == 4      \* longest document the pure functions are tried on
MaxArgLen == 2      \* longest old_str / new_str the pure functions are tried on
MaxCalls == 2       \* most tool calls in one model turn
MaxLog == 2         \* most str_replace calls the backend issues in one request
MaxSearch == 1      \* most web_search calls the backend issues in one request

(***************************************************************************)
(* Text.                                                                   *)
(***************************************************************************)
Chars == {"a", "b"}

RECURSIVE StringsUpTo(_)
StringsUpTo(n) ==
    IF n = 0 THEN {<<>>}
    ELSE LET shorter == StringsUpTo(n - 1)
         IN  shorter \cup {Append(s, c) : s \in {t \in shorter : Len(t) = n - 1}, c \in Chars}

\* s occurs in h at position i (1-based)
OccursAt(h, s, i) ==
    /\ i >= 1
    /\ i + Len(s) - 1 <= Len(h)
    /\ SubSeq(h, i, i + Len(s) - 1) = s

\* Python's `s in h`
Contains(h, s) == \E i \in 1..(Len(h) + 1) : OccursAt(h, s, i)

\* Python's h.find(s) + 1, for s in h: the leftmost position
Find(h, s) ==
    CHOOSE i \in 1..(Len(h) + 1) :
        OccursAt(h, s, i) /\ \A j \in 1..(i - 1) : ~OccursAt(h, s, j)

\* Python's h.replace(old, new, 1)
Replace1(h, old, new) ==
    IF ~Contains(h, old) THEN h
    ELSE LET i == Find(h, old)
         IN  SubSeq(h, 1, i - 1) \o new \o SubSeq(h, i + Len(old), Len(h))

\* Python's h[:n]
Prefix(h, n) == SubSeq(h, 1, IF Len(h) < n THEN Len(h) ELSE n)

Whitespace == {" "}

RECURSIVE LStrip(_)
LStrip(h) == IF h # <<>> /\ Head(h) \in Whitespace THEN LStrip(Tail(h)) ELSE h

RECURSIVE RStrip(_)
RStrip(h) ==
    IF h # <<>> /\ h[Len(h)] \in Whitespace THEN RStrip(SubSeq(h, 1, Len(h) - 1)) ELSE h

\* Python's h.strip()
Strip(h) == RStrip(LStrip(h))

(***************************************************************************)
(* agents/tools/html_tools.py and agents.py: the patch executor.  The      *)
(* result is the pair (updated_html, success).                             *)
(***************************************************************************)
execute_str_replace_no_check(current_html, old_str, new_str) ==
    <<Replace1(current_html, old_str, new_str), TRUE>>

execute_str_replace_find_truthy(current_html, old_str, new_str) ==
    IF ~Contains(current_html, old_str) \/ Find(current_html, old_str) = 1
    THEN <<current_html, FALSE>>
    ELSE <<Replace1(current_html, old_str, new_str), TRUE>>

RECURSIVE ReplaceAll(_, _, _)
ReplaceAll(h, old, new) ==
    IF old = <<>> \/ ~Contains(h, old) THEN h
    ELSE LET i == Find(h, old)
         IN  SubSeq(h, 1, i - 1) \o new \o ReplaceAll(SubSeq(h, i + Len(old), Len(h)), old, new)

execute_str_replace_all(current_html, old_str, new_str) ==
    IF ~Contains(current_html, old_str) THEN <<current_html, FALSE>>
    ELSE <<ReplaceAll(current_html, old_str, new_str), TRUE>>

\* an empty old_str counted as absent
execute_str_replace_nonempty_only(current_html, old_str, new_str) ==
    IF old_str = <<>> \/ ~Contains(current_html, old_str) THEN <<current_html, FALSE>>
    ELSE <<Replace1(current_html, old_str, new_str), TRUE>>

execute_str_replace(current_html, old_str, new_str) ==
    IF ~Contains(current_html, old_str) THEN <<current_html, FALSE>>
    ELSE <<Replace1(current_html, old_str, new_str), TRUE>>

agents_execute_str_replace(current_html, old_str, new_str) ==
    IF ~Contains(current_html, old_str) THEN <<current_html, FALSE>>
    ELSE <<Replace1(current_html, old_str, new_str), TRUE>>


(***************************************************************************)
(* boilerplate.py and orchestrator._is_boilerplate.  The placeholder       *)
(* document holds the sentinel phrase between markup, with no whitespace   *)
(* around it.                                                              *)
(***************************************************************************)
Sentinel == <<"d", "w">>     \* "describe what you want to build"

INITIAL_BOILERPLATE == <<"<">> \o Sentinel \o <<">">>

is_boilerplate(html) ==
    \/ html = <<>>
    \/ Strip(html) = Strip(INITIAL_BOILERPLATE)
    \/ Contains(html, Sentinel)

(***************************************************************************)
(* The planner's raw output is a sequence of lines: a ``` fence, a blank   *)
(* line, a line of prose, or a line holding one complete JSON value.  A    *)
(* JSON value is an object (a dict, here a record whose domain is the set  *)
(* of keys present) or an array.  Confidence is in tenths.                 *)
(***************************************************************************)
Fence == [k |-> "fence"]
Blank == [k |-> "blank"]
Prose == [k |-> "text"]
JsonLine(v) == [k |-> "json", v |-> v]

JsonObject(d) == [t |-> "object", d |-> d]
JsonArray == [t |-> "array"]

None == "None"

\* raw.strip(): blank lines at either end go
RECURSIVE StripLines(_)
StripLines(lines) ==
    IF lines # <<>> /\ Head(lines) = Blank THEN StripLines(Tail(lines))
    ELSE IF lines # <<>> /\ lines[Len(lines)] = Blank
         THEN StripLines(SubSeq(lines, 1, Len(lines) - 1))
         ELSE lines

NotFence(l) == l # Fence
NotBlank(l) == l # Blank

\* json.loads succeeds on exactly one JSON value with whitespace around it
JsonLoadable(lines) ==
    LET body == SelectSeq(lines, NotBlank)
    IN  Len(body) = 1 /\ body[1].k = "json"

JsonLoads(lines) == SelectSeq(lines, NotBlank)[1].v

DefaultPlan ==
    JsonObject([decision |-> "surgical_edit",
                complexity |-> "simple",
                confidence |-> 5,
                needs_clarification |-> FALSE,
                clarification_question |-> None,
                description |-> "apply requested changes",
                changes |-> <<>>,
                needs_web_search |-> FALSE,
                search_query |-> None])

\* lines 39-43: strip, and drop the fence lines when the text starts with one
PlanCleaned(raw) ==
    LET stripped == StripLines(raw)
    IN  IF stripped # <<>> /\ Head(stripped) = Fence
        THEN SelectSeq(stripped, NotFence)
        ELSE stripped

\* the except clause of lines 45-56 hands back a value that is not a dict
parse_plan_default_not_dict(raw) ==
    LET cleaned == PlanCleaned(raw)
    IN  IF JsonLoadable(cleaned) THEN JsonLoads(cleaned) ELSE JsonArray

parse_plan(raw) ==
    LET cleaned == PlanCleaned(raw)
    IN  IF JsonLoadable(cleaned) THEN JsonLoads(cleaned) ELSE DefaultPlan

\* dict.get(key, default) and dict[key] = value
DictGet(d, key, default) == IF key \in DOMAIN d THEN d[key] ELSE default

DictSet(d, key, value) ==
    [x \in (DOMAIN d) \cup {key} |-> IF x = key THEN value ELSE d[x]]

DictDrop(d, key) == [x \in (DOMAIN d) \ {key} |-> d[x]]

PlanGet(plan, key, default) == DictGet(plan.d, key, default)

(***************************************************************************)
(* The planner outputs the backend is tried with.                          *)
(***************************************************************************)
PlanAmbiguous ==       \* asks for clarification with low confidence
    [decision |-> "surgical_edit", complexity |-> "moderate", confidence |-> 5,
     needs_clarification |-> TRUE, clarification_question |-> "which one?",
     description |-> "unclear", changes |-> <<>>,
     needs_web_search |-> FALSE, search_query |-> None]

PlanAtThreshold == [PlanAmbiguous EXCEPT !.confidence = 6]

PlanNoConfidence == DictDrop(PlanAmbiguous, "confidence")

PlanRewrite ==
    [decision |-> "full_rewrite", complexity |-> "complex", confidence |-> 9,
     needs_clarification |-> FALSE, clarification_question |-> None,
     description |-> "rebuild", changes |-> <<"c1">>,
     needs_web_search |-> TRUE, search_query |-> "cdn url"]

PlanNoDecision == DictDrop(PlanRewrite, "decision")

PlannerOutputs ==
    { <<Prose>>,
      <<Prose, Fence, JsonLine(JsonObject(PlanRewrite)), Fence>>,
      <<Fence, JsonLine(JsonObject(PlanAmbiguous)), Fence>>,
      <<Blank, JsonLine(JsonObject(PlanAmbiguous)), Blank>>,
      <<JsonLine(JsonObject(PlanAtThreshold))>>,
      <<JsonLine(JsonObject(PlanNoConfidence))>>,
      <<JsonLine(JsonObject(PlanRewrite))>>,
      <<JsonLine(JsonObject(PlanNoDecision))>>,
      <<JsonLine(JsonArray)>> }

\* what the planner answers when two requests run side by side
DuoPlannerOutputs == {<<Prose>>, <<Fence, JsonLine(JsonObject(PlanAmbiguous)), Fence>>}

SteadyPlannerOutputs ==
    { <<Prose>>, <<JsonLine(JsonObject(PlanRewrite))>> }

ConfidenceThreshold == 6     \* 0.6
ConfidenceDefault == 10      \* plan.get("confidence", 1.0)

(***************************************************************************)
(* Requests, documents and the tool calls the backend is tried with.       *)
(***************************************************************************)
Runs == {"r1", "r2"}

DocPadded == <<" ">> \o INITIAL_BOILERPLATE \o <<" ">>
DocSentinel == <<"a">> \o Sentinel
DocPlain == <<"a", "b", "a">>

BlankDocs == {<<>>, DocPadded, DocSentinel}
InitDocs == BlankDocs \cup {DocPlain}

NewHtml == <<"n", "e", "w">>

WriteEmpty ==
    [name |-> "write_full_file", html |-> <<>>, summary |-> "built",
     html_summary |-> "about", component_map |-> <<"c1">>]
WritePlain ==
    [name |-> "write_full_file", html |-> NewHtml, summary |-> "built",
     html_summary |-> "", component_map |-> <<"c1">>]
WriteFull ==
    [name |-> "write_full_file", html |-> NewHtml, summary |-> "built",
     html_summary |-> "about", component_map |-> <<"c1">>]
PatchA == [name |-> "str_replace", old_str |-> <<"a">>, new_str |-> <<"b">>]
PatchBB == [name |-> "str_replace", old_str |-> <<"b", "b">>, new_str |-> <<"c">>]
PatchB == [name |-> "str_replace", old_str |-> <<"b">>, new_str |-> <<"c">>]
Ask == [name |-> "ask_clarification", question |-> "what colour?"]
Search == [name |-> "web_search", query |-> "cdn"]
Finish == [name |-> "finish", summary |-> "edited"]
Unknown == [name |-> "no_such_tool"]

\* tool calls that leave arguments out, or carry them empty
PatchEmptyOld == [name |-> "str_replace", old_str |-> <<>>, new_str |-> <<"b">>]
PatchNoOld == [name |-> "str_replace", new_str |-> <<"a">>]
PatchBare == [name |-> "str_replace"]
WriteNoSummary ==
    [name |-> "write_full_file", html |-> NewHtml, summary |-> "built",
     component_map |-> <<"c1">>]
WriteBare == [name |-> "write_full_file"]

ToolCalls == {WriteEmpty, WritePlain, WriteFull, PatchA, PatchBB, Ask, Search, Finish, Unknown}

\* what run_edit_agent's backend is offered (EDIT_TOOLS), a stray name and a
\* tool of run_orchestrator, which EDIT_TOOLS does not list
EditToolCalls == {PatchA, PatchBB, Finish, Unknown, Search}

\* what a backend that keeps going, one call a turn, answers with
\* the tool calls of a backend serving two requests side by side
DuoCalls == {PatchA, PatchB, Ask, Finish}

\* what the backend returns to a request that came with uploads
UploadCalls == {Finish}

\* the tool calls of a backend serving one request after another
SeqCalls == {Ask, Finish}

\* the tool calls of a backend serving the requests of one event loop
LoopCalls == {PatchA, Search, Finish}

\* the tool calls of a backend that leaves arguments out
SparseCalls ==
    {PatchEmptyOld, PatchNoOld, PatchBare, PatchA, WriteNoSummary, WritePlain, WriteFull,
     WriteBare, Finish}

SteadyCalls == {WriteEmpty, PatchA, PatchBB, Finish, Unknown}

SeqsUpTo(S, n) == UNION {[1..k -> S] : k \in 0..n}

CountCalls(calls, name) == Cardinality({i \in DOMAIN calls : calls[i].name = name})

max_iterations == 15         \* run_orchestrator
edit_max_iterations == 10    \* run_edit_agent
PreviewLen == 80             \* old_str[:80]

SearchHits == <<[title |-> "t", description |-> "d", url |-> "u"]>>

format_search_results(results) ==
    IF results = <<>> THEN "No results found." ELSE "1. t d u"

(***************************************************************************)
(* The state at dispatch.                                                  *)
(***************************************************************************)
\* snapshot_version between its two database calls: nothing in flight
\* config.py, lines 13-25
GROQ_MODELS == {"groq/llama-3.3-70b", "groq/llama-3.1-8b"}

CLAUDE_MODELS == {"claude/claude-sonnet-4-5", "claude/claude-haiku-4-5"}

DEFAULT_MODEL == "groq/llama-3.3-70b"

\* agents/models/router.py with a backend of last resort in place of line 11
chat_falls_back(model_id) ==
    IF model_id \in GROQ_MODELS THEN "groq_client" ELSE "claude_client"

\* agents/models/router.py, lines 5-11: the backend that is called, or the
\* exception raised in its place
chat(model_id) ==
    IF model_id \in GROQ_MODELS THEN "groq_client"
    ELSE IF model_id \in CLAUDE_MODELS THEN "claude_client"
    ELSE "ValueError"

\* the id of the one row of the pages table
PageId == "page1"

\* the endpoint has not answered
NoResponse == [status_code |-> 0, status |-> "none", agent |-> "none"]

NoSnapshot == [html |-> <<>>, next_version |-> 0, return_to |-> "none"]

IdleRun ==
    [agent |-> "orchestrator", env |-> "varied", pc |-> "off", path |-> "none",
     user_prompt |-> [text |-> "none"],
     loaded_html |-> <<>>, current_html |-> <<>>, is_new_page |-> FALSE, plan |-> JsonObject(<<>>),
     tokens_used |-> 0, web_searches_used |-> <<>>, changes_log |-> <<>>,
     clarification_asked |-> FALSE, question |-> None,
     iteration |-> 0, final_summary |-> "Done.",
     content |-> "", tool_calls |-> <<>>, tc |-> 0, tool_results |-> <<>>,
     messages |-> [new |-> <<>>],
     pending_clarification |-> 0, planning_prompt |-> [text |-> "none"],
     snapshot |-> NoSnapshot,
     model_id |-> DEFAULT_MODEL, page_id |-> PageId, http |-> NoResponse,
     owner_id |-> None, asset_tasks |-> <<>>, running_task |-> 0, asset_context |-> <<>>,
     html_summary |-> "", component_map |-> <<>>,
     edit_history |-> <<>>, chat_history |-> <<>>,
     BRAVE_SEARCH_API_KEY |-> TRUE]

IdleObs ==
    [model_calls |-> 0, loop_calls |-> 0, doc_writes |-> 0, status_log |-> <<>>,
     executed |-> 0, applied |-> <<>>, actions |-> <<>>, plan_fallback |-> FALSE,
     backends |-> {}, images_extracted |-> 0,
     terminal |-> FALSE, raised |-> FALSE, raised_at |-> "none"]

NoPure == [fn |-> "none"]

\* agents/tools/search_tools.py, lines 5-34: without a key the one entry of
\* line 7, with a key what the search service answers
SearchUnavailable ==
    <<[title |-> "Search unavailable",
       description |-> "No Brave Search API key configured.", url |-> ""]>>

brave_search(r) ==
    IF run[r].BRAVE_SEARCH_API_KEY THEN SearchHits ELSE SearchUnavailable

StartRun(agent, env, prompt) ==
    [IdleRun EXCEPT !.agent = agent, !.env = env, !.pc = "start",
                    !.user_prompt = [text |-> prompt], !.owner_id = "u1"]

\* a talkative backend: up to MaxCalls tool calls in its first turn, none after
InitVaried ==
    /\ run \in {[r \in Runs |-> IF r = "r1" THEN StartRun(a, "varied", "p1") ELSE IdleRun] :
                  a \in {"orchestrator", "edit"}}
    /\ page \in {[html_content |-> h, html_summary |-> "", component_map |-> <<>>] :
                   h \in InitDocs}

\* a backend that makes one tool call a turn, for as long as it is asked
InitSteady ==
    /\ run \in {[r \in Runs |-> IF r = "r1" THEN StartRun(a, "steady", "p1") ELSE IdleRun] :
                  a \in {"orchestrator", "edit"}}
    /\ page \in {[html_content |-> h, html_summary |-> "", component_map |-> <<>>] :
                   h \in {DocPlain}}

\* the tables of a page no request has worked on yet
FreshTables ==
    /\ replies = <<>>
    /\ edit_history = <<>>
    /\ clarification_threads = <<>>
    /\ page_versions = <<>>

\* What an earlier message m0 left behind on a page: two version snapshots
\* and, from its clarification short-circuit, the question as a reply, an
\* edit-history row and an unresolved clarification thread.
EarlierVersions ==
    <<[by |-> "m0", html_snapshot |-> NewHtml, version_num |-> 1,
       trigger_type |-> "agent_complete"],
      [by |-> "m0", html_snapshot |-> DocPlain, version_num |-> 2,
       trigger_type |-> "agent_complete"]>>

EarlierThread == [message_id |-> "m0", question |-> "q0", resolved |-> FALSE, answer |-> None]

EarlierReply ==
    [by |-> "m0", role |-> "assistant", content |-> "q0", status |-> "completed",
     message_type |-> "clarification",
     meta |-> [awaiting_clarification |-> TRUE, reason |-> ""]]

EarlierHistory ==
    [message_id |-> "m0", complexity |-> "simple", decision |-> "clarification",
     plan_json |-> JsonObject(PlanAmbiguous), changes_json |-> <<>>,
     clarification_asked |-> TRUE, web_searches_used |-> <<>>,
     tokens_used |-> 1, success |-> TRUE]

\* a follow-up message: the page has versions and an open question
InitFollowUp ==
    /\ run = [r \in Runs |-> IF r = "r1" THEN StartRun("orchestrator", "varied", "p1")
                                         ELSE IdleRun]
    /\ page = [html_content |-> DocPlain, html_summary |-> "", component_map |-> <<>>]
    /\ replies = <<EarlierReply>>
    /\ edit_history = <<EarlierHistory>>
    /\ clarification_threads = <<EarlierThread>>
    /\ page_versions = EarlierVersions

Init ==
    /\ \/ InitVaried /\ FreshTables
       \/ InitSteady /\ FreshTables
       \/ InitFollowUp
    /\ msg_status = [r \in Runs |-> IF run[r].pc = "off" THEN "none" ELSE "pending"]
    /\ obs = [r \in Runs |-> IdleObs]
    /\ pure = NoPure
    /\ page_assets = <<>>

(***************************************************************************)
(* database.py: what each persistence call writes.                         *)
(***************************************************************************)
At(r, label) == run[r].pc = label

Goto(r, label) == run' = [run EXCEPT ![r].pc = label]

update_message_status(r, status) ==
    /\ msg_status' = [msg_status EXCEPT ![r] = status]
    /\ obs' = [obs EXCEPT ![r].status_log = Append(@, status)]

insert_assistant_message(r, content, message_type, meta) ==
    replies' = Append(replies, [by |-> r, role |-> "assistant", content |-> content,
                                status |-> "completed", message_type |-> message_type,
                                meta |-> meta])

VersionNums == {page_versions[i].version_num : i \in DOMAIN page_versions}

NextVersion_from_zero ==
    IF page_versions = <<>> THEN 0
    ELSE (CHOOSE m \in VersionNums : \A n \in VersionNums : n <= m) + 1

NextVersion ==
    IF page_versions = <<>> THEN 1
    ELSE (CHOOSE m \in VersionNums : \A n \in VersionNums : n <= m) + 1

snapshot_version_select_reuses_highest(rec, html, return_to) ==
    [rec EXCEPT !.snapshot = [html |-> html, next_version |-> NextVersion - 1,
                              return_to |-> return_to],
                !.pc = "snapshot_insert"]

\* snapshot_version, lines 81-89: the SELECT of the highest version number.
\* The request rec goes on to the INSERT and from there to return_to.
snapshot_version_select(rec, html, return_to) ==
    [rec EXCEPT !.snapshot = [html |-> html, next_version |-> NextVersion,
                              return_to |-> return_to],
                !.pc = "snapshot_insert"]

\* snapshot_version, lines 91-96: the INSERT, a database call of its own
snapshot_version_insert(r) ==
    /\ At(r, "snapshot_insert")
    /\ page_versions' = Append(page_versions,
           [by |-> r, html_snapshot |-> run[r].snapshot.html,
            version_num |-> run[r].snapshot.next_version,
            trigger_type |-> "agent_complete"])
    /\ run' = [run EXCEPT ![r].pc = run[r].snapshot.return_to,
                          ![r].snapshot = NoSnapshot]
    /\ UNCHANGED <<page, msg_status, replies, edit_history, clarification_threads,
                   obs, pure, page_assets>>

insert_edit_history(r, complexity, decision, changes_json, clarification_asked, web_searches_used, success) ==
    edit_history' = Append(edit_history,
        [message_id |-> r, complexity |-> complexity, decision |-> decision,
         plan_json |-> run[r].plan, changes_json |-> changes_json,
         clarification_asked |-> clarification_asked,
         web_searches_used |-> web_searches_used,
         tokens_used |-> run[r].tokens_used, success |-> success])

insert_clarification(r, question) ==
    clarification_threads' = Append(clarification_threads,
        [message_id |-> r, question |-> question, resolved |-> FALSE, answer |-> None])

Unresolved == {i \in DOMAIN clarification_threads : ~clarification_threads[i].resolved}

\* get_pending_clarification: the newest unresolved thread, 0 when there is none
PendingClarification ==
    IF Unresolved = {} THEN 0 ELSE CHOOSE i \in Unresolved : \A j \in Unresolved : j <= i

(***************************************************************************)
(* run_orchestrator, steps 1 to 5: status, assets, load, pending           *)
(* clarification, planning.                                                *)
(***************************************************************************)
IsOrchestrator(r) == run[r].agent = "orchestrator"

StatusProcessing(r) ==
    /\ IsOrchestrator(r) /\ At(r, "start")
    /\ update_message_status(r, "processing")
    /\ Goto(r, "process_assets")
    /\ UNCHANGED <<page, replies, edit_history, clarification_threads, page_versions, pure, page_assets>>

(***************************************************************************)
(* agents/processors/asset_pipeline.py.  process_pending_assets starts one *)
(* _process_one coroutine per pending asset and gathers them; the model    *)
(* keeps each coroutine's position in run[r].asset_tasks.  The coroutines  *)
(* share one event loop and their storage, vision and database calls are   *)
(* blocking calls, so a coroutine that has started keeps the loop          *)
(* (run[r].running_task) until it returns or waits for the gather of line  *)
(* 129; which coroutine the loop takes up next is left open.  What         *)
(* storage, the extractors and the vision model answer is chosen at the    *)
(* step that asks them.                                                    *)
(***************************************************************************)
\* database.py, lines 172-182: top-level rows in 'pending'
get_pending_assets_for_page ==
    {i \in DOMAIN page_assets : /\ page_assets[i].processing_status = "pending"
                                /\ page_assets[i].parent_asset_id = 0}

\* one _process_one coroutine; failure notes what went wrong in it, if anything
NewTask == [pc |-> "started", result |-> "none", images |-> 0, child |-> 0, failure |-> "none"]

\* lines 72-73 and 36-41
ProcessAssets(r) ==
    /\ At(r, "process_assets")
    /\ LET pending == get_pending_assets_for_page
       IN  IF run[r].owner_id = None \/ pending = {}
           THEN Goto(r, "build_asset_context")
           ELSE run' = [run EXCEPT ![r].asset_tasks = [i \in pending |-> NewTask],
                                   ![r].pc = "gather"]
    /\ UNCHANGED <<dbvars, obs, pure, page_assets>>

TaskAt(r, k, pc) ==
    /\ At(r, "gather")
    /\ k \in DOMAIN run[r].asset_tasks
    /\ run[r].running_task \in {0, k}
    /\ run[r].asset_tasks[k].pc = pc

TaskGoto(r, k, pc) ==
    run' = [run EXCEPT ![r].asset_tasks[k].pc = pc, ![r].running_task = k]

TaskReturn(r, k, result) ==
    run' = [run EXCEPT ![r].asset_tasks[k].pc = "returned",
                       ![r].asset_tasks[k].result = result,
                       ![r].running_task = 0]

TaskFails(r, k, failure, result) ==
    run' = [run EXCEPT ![r].asset_tasks[k].pc = "returned",
                       ![r].asset_tasks[k].result = result,
                       ![r].asset_tasks[k].failure = failure,
                       ![r].running_task = 0]

SetProcessingStatus(i, status) ==
    page_assets' = [page_assets EXCEPT ![i].processing_status = status]

\* line 55
process_one_Started(r, k) ==
    /\ TaskAt(r, k, "started")
    /\ SetProcessingStatus(k, "processing")
    /\ TaskGoto(r, k, "download")
    /\ UNCHANGED <<dbvars, obs, pure>>

\* lines 58-69: _download_from_storage returns None instead of raising
process_one_Download(r, k) ==
    /\ TaskAt(r, k, "download")
    /\ \E file_bytes \in {"None", "bytes"} :
          IF file_bytes = "None" \/ page_assets[k].asset_type \notin {"image", "document"}
          THEN /\ SetProcessingStatus(k, "failed")
               /\ TaskFails(r, k, IF file_bytes = "None" THEN "download"
                                  ELSE "unknown_type", "False")
          ELSE /\ TaskGoto(r, k, IF page_assets[k].asset_type = "image"
                                 THEN "process_image" ELSE "process_document")
               /\ UNCHANGED page_assets
    /\ UNCHANGED <<dbvars, obs, pure>>

\* lines 76-92, when analyze_image returns
process_image(r, k) ==
    /\ TaskAt(r, k, "process_image")
    /\ SetProcessingStatus(k, "ready")
    /\ TaskReturn(r, k, "True")
    /\ UNCHANGED <<dbvars, obs, pure>>

MaxImages == 1      \* embedded images extracted for one request at most

\* what extract_pdf / extract_docx return: an error they handled themselves
\* (unreadable file, legacy .doc, library missing), or text and images
Extractions == {[error |-> e, images |-> n] : e \in BOOLEAN, n \in 0..MaxImages}

\* lines 95-131, up to the gather of line 129
process_document(r, k) ==
    /\ TaskAt(r, k, "process_document")
    /\ \E extraction \in Extractions :
          /\ obs[r].images_extracted + extraction.images <= MaxImages
          /\ SetProcessingStatus(k, "ready")
          /\ IF extraction.error THEN TaskFails(r, k, "extraction_error", "True")
             ELSE IF extraction.images = 0 THEN TaskReturn(r, k, "True")
             ELSE run' = [run EXCEPT ![r].asset_tasks[k].pc = "embedded_upload",
                                     ![r].asset_tasks[k].images = extraction.images,
                                     ![r].running_task = 0]
          /\ obs' = [obs EXCEPT ![r].images_extracted =
                         IF extraction.error THEN @ ELSE @ + extraction.images]
    /\ UNCHANGED <<dbvars, pure>>

\* database.py, lines 249-278
ExtractedImageRow(parent) ==
    [asset_type |-> "extracted_image", processing_status |-> "processing",
     parent_asset_id |-> parent]

\* _process_embedded_image has ended for one image: on to the next one, or
\* back to line 131 after the last.  The model takes the images one by one.
EmbeddedDone(task, failure) ==
    [task EXCEPT !.images = @ - 1,
                 !.child = 0,
                 !.failure = IF failure = "none" THEN @ ELSE failure,
                 !.pc = IF task.images = 1 THEN "returned" ELSE "embedded_upload",
                 !.result = IF task.images = 1 THEN "True" ELSE @]

\* lines 134-174: a failed upload, or an insert that returns no row or
\* raises into the gather of line 129, skips the image
process_embedded_image_Upload(r, k) ==
    /\ TaskAt(r, k, "embedded_upload")
    /\ \E stored \in BOOLEAN :
          IF stored
          THEN /\ page_assets' = Append(page_assets, ExtractedImageRow(k))
               /\ run' = [run EXCEPT ![r].asset_tasks[k].pc = "embedded_vision",
                                      ![r].asset_tasks[k].child = Len(page_assets) + 1,
                                      ![r].running_task = k]
          ELSE /\ run' = [run EXCEPT ![r].asset_tasks[k] = EmbeddedDone(@, "embedded_upload"),
                                      ![r].running_task = 0]
               /\ UNCHANGED page_assets
    /\ UNCHANGED <<dbvars, obs, pure>>

\* lines 176-190.  When mark_asset_failed raises too, the gather of line
\* 129 keeps the exception and the child row stays as it is.
process_embedded_image_Vision(r, k) ==
    /\ TaskAt(r, k, "embedded_vision")
    /\ \E outcome \in {"described", "vision_failed", "mark_failed_raised"} :
          LET child == run[r].asset_tasks[k].child
          IN  /\ CASE outcome = "described" -> SetProcessingStatus(child, "ready")
                    [] outcome = "vision_failed" -> SetProcessingStatus(child, "failed")
                    [] OTHER -> UNCHANGED page_assets
              /\ run' = [run EXCEPT ![r].asset_tasks[k] =
                             EmbeddedDone(@, IF outcome = "described" THEN "none"
                                             ELSE "embedded_vision"),
                                     ![r].running_task = 0]
    /\ UNCHANGED <<dbvars, obs, pure>>

\* the steps of _process_one inside its try block, lines 54-69
TaskTryPcs == {"started", "download", "process_image", "process_document"}

\* a call of the try block raises: storage, vision or extraction, a database
\* update
process_one_Raise(r, k) ==
    /\ \E pc \in TaskTryPcs : TaskAt(r, k, pc)
    /\ run' = [run EXCEPT
           ![r].asset_tasks[k].pc = "except",
           ![r].running_task = k,
           ![r].asset_tasks[k].failure =
               CASE run[r].asset_tasks[k].pc = "process_image" -> "vision"
                 [] run[r].asset_tasks[k].pc = "process_document" -> "extraction"
                 [] OTHER -> "database"]
    /\ UNCHANGED <<dbvars, obs, pure, page_assets>>

\* lines 71-73; when mark_asset_failed raises, the exception leaves the
\* coroutine
process_one_Except(r, k) ==
    /\ TaskAt(r, k, "except")
    /\ \E marked \in BOOLEAN :
          IF marked
          THEN /\ SetProcessingStatus(k, "failed")
               /\ TaskReturn(r, k, "False")
          ELSE /\ TaskReturn(r, k, "exception")
               /\ UNCHANGED page_assets
    /\ UNCHANGED <<dbvars, obs, pure>>

\* line 41 with exceptions raised out of the gather, as asyncio.gather does
\* without return_exceptions
gather_raising(results) ==
    [raised |-> \E k \in DOMAIN results : results[k] = "exception",
     results |-> results]

\* line 41: asyncio.gather(*tasks, return_exceptions=True) hands exceptions
\* back as results
gather(results) == [raised |-> FALSE, results |-> results]

\* lines 41-44, once every coroutine has ended, and the return to line 76
ProcessAssets_Return(r) ==
    /\ At(r, "gather")
    /\ \A k \in DOMAIN run[r].asset_tasks : run[r].asset_tasks[k].pc = "returned"
    /\ LET gathered == gather([k \in DOMAIN run[r].asset_tasks |->
                                  run[r].asset_tasks[k].result])
       IN  /\ run' = [run EXCEPT
                  ![r].asset_tasks = <<>>,
                  ![r].path = IF gathered.raised THEN "except" ELSE @,
                  ![r].pc = IF gathered.raised THEN "exc_status"
                            ELSE "build_asset_context"]
           /\ obs' = [obs EXCEPT ![r].raised = @ \/ gathered.raised]
    /\ UNCHANGED <<dbvars, pure, page_assets>>

(***************************************************************************)
(* agents/processors/asset_context.py                                      *)
(***************************************************************************)
\* database.py, lines 185-195: rows in 'ready', children included, oldest
\* first
get_page_assets_ready ==
    LET Ready(i) == page_assets[i].processing_status = "ready"
    IN  SelectSeq([i \in 1..Len(page_assets) |-> i], Ready)

\* lines 10-87: nothing at all without ready assets; otherwise a heading,
\* then the images, the documents and the extracted images, a line of text
\* or a block about the asset of row file each
build_asset_context ==
    LET assets == get_page_assets_ready
        Image(i) == page_assets[i].asset_type = "image"
        Doc(i) == page_assets[i].asset_type = "document"
        Extracted(i) == page_assets[i].asset_type = "extracted_image"
        Line(text) == [text |-> text, file |-> 0]
        Section(title, ids) ==
            IF ids = <<>> THEN <<>>
            ELSE <<Line(title)>> \o [n \in 1..Len(ids) |-> [text |-> "File:", file |-> ids[n]]]
    IN  IF assets = <<>> THEN <<>>
        ELSE <<Line("UPLOADED FILES CONTEXT")>>
             \o Section("IMAGES AVAILABLE FOR USE IN HTML", SelectSeq(assets, Image))
             \o Section("DOCUMENT CONTENT", SelectSeq(assets, Doc))
             \o Section("IMAGES EXTRACTED FROM DOCUMENTS", SelectSeq(assets, Extracted))

\* orchestrator.py, line 76
BuildAssetContext(r) ==
    /\ At(r, "build_asset_context")
    /\ run' = [run EXCEPT ![r].asset_context = build_asset_context,
                          ![r].pc = "load_page"]
    /\ UNCHANGED <<dbvars, obs, pure, page_assets>>

LastN(rows, n) == IF Len(rows) <= n THEN rows ELSE SubSeq(rows, Len(rows) - n + 1, Len(rows))

\* lines 79-85
LoadPage(r) ==
    /\ At(r, "load_page")
    /\ run' = [run EXCEPT ![r].loaded_html = page.html_content,
                          ![r].current_html = page.html_content,
                          ![r].html_summary = page.html_summary,
                          ![r].component_map = page.component_map,
                          ![r].edit_history = LastN(edit_history, 5),
                          ![r].chat_history = LastN(replies, 8),
                          ![r].pc = "pending_clarification"]
    /\ UNCHANGED <<dbvars, obs, pure, page_assets>>

\* line 88: get_pending_clarification, and the test of line 89
GetPending(r) ==
    /\ At(r, "pending_clarification")
    /\ run' = [run EXCEPT ![r].pending_clarification = PendingClarification,
                          ![r].pc = IF PendingClarification = 0 THEN "plan_chat"
                                    ELSE "resolve_clarification"]
    /\ UNCHANGED <<dbvars, obs, pure, page_assets>>

\* database.py, resolve_clarification: an UPDATE by id, whatever the row holds
resolve_clarification(i, answer) ==
    clarification_threads' = [clarification_threads EXCEPT ![i].resolved = TRUE,
                                                           ![i].answer = answer]

ResolvePending_raw_prompt(r) ==
    /\ At(r, "resolve_clarification")
    /\ resolve_clarification(run[r].pending_clarification, run[r].user_prompt)
    /\ Goto(r, "plan_chat")
    /\ UNCHANGED <<page, msg_status, replies, edit_history, page_versions, obs, pure, page_assets>>

\* lines 90-95 without the call of line 90
ResolvePending_prompt_only(r) ==
    /\ At(r, "resolve_clarification")
    /\ LET i == run[r].pending_clarification
       IN  run' = [run EXCEPT
               ![r].user_prompt = [question |-> clarification_threads[i].question,
                                   answer |-> run[r].user_prompt,
                                   instruction |-> "proceed"],
               ![r].pc = "plan_chat"]
    /\ UNCHANGED <<dbvars, obs, pure, page_assets>>

\* lines 90-95: the thread fetched at line 88 is resolved with the raw
\* message, then user_prompt is rebuilt from the fetched question, the raw
\* message and the fixed closing instruction
ResolvePending(r) ==
    /\ At(r, "resolve_clarification")
    /\ LET i == run[r].pending_clarification
       IN  /\ resolve_clarification(i, run[r].user_prompt)
           /\ run' = [run EXCEPT
                  ![r].user_prompt = [question |-> clarification_threads[i].question,
                                      answer |-> run[r].user_prompt,
                                      instruction |-> "proceed"],
                  ![r].pc = "plan_chat"]
    /\ UNCHANGED <<page, msg_status, replies, edit_history, page_versions, obs, pure, page_assets>>

IsObject(plan) == plan.t = "object"

\* lines 123-125
PlanOverride(plan, is_new_page) ==
    IF is_new_page
    THEN [plan EXCEPT !.d = DictSet(DictSet(plan.d, "decision", "full_rewrite"),
                                    "needs_clarification", FALSE)]
    ELSE plan

\* line 127
ShortCircuits_at_most(plan, is_new_page) ==
    /\ PlanGet(plan, "needs_clarification", FALSE)
    /\ ~is_new_page
    /\ PlanGet(plan, "confidence", ConfidenceDefault) <= ConfidenceThreshold

ShortCircuits(plan, is_new_page) ==
    /\ PlanGet(plan, "needs_clarification", FALSE)
    /\ ~is_new_page
    /\ PlanGet(plan, "confidence", ConfidenceDefault) < ConfidenceThreshold

\* lines 97-127: the planning call, _parse_plan, the override and the branch.
\* A plan that is not a dict raises at line 124 or 127.
PlanChat(r) ==
    /\ At(r, "plan_chat")
    /\ chat(run[r].model_id) # "ValueError"
    /\ \E raw \in (IF run[r].env \in {"steady", "upload", "loop", "sparse"} THEN SteadyPlannerOutputs
                   ELSE IF run[r].env \in {"duo", "seq"} THEN DuoPlannerOutputs
                   ELSE PlannerOutputs) :
         LET new == is_boilerplate(run[r].current_html)
             parsed == parse_plan(raw)
             plan == IF IsObject(parsed) THEN PlanOverride(parsed, new) ELSE parsed
             short == IsObject(parsed) /\ ShortCircuits(plan, new)
         IN  /\ run' = [run EXCEPT
                   ![r].is_new_page = new,
                   ![r].tokens_used = @ + 1,
                   ![r].planning_prompt = run[r].user_prompt,
                   ![r].plan = plan,
                   ![r].question =
                       IF short
                       THEN PlanGet(plan, "clarification_question",
                                    "Could you clarify what you would like?")
                       ELSE @,
                   ![r].path = IF ~IsObject(parsed) THEN "except"
                               ELSE IF short THEN "shortcircuit" ELSE @,
                   ![r].pc = IF ~IsObject(parsed) THEN "exc_status"
                             ELSE IF short THEN "sc_insert_clarification"
                             ELSE "insert_thinking"]
             /\ obs' = [obs EXCEPT ![r].model_calls = @ + 1,
                                   ![r].backends = @ \cup {chat(run[r].model_id)},
                                   ![r].plan_fallback = ~JsonLoadable(PlanCleaned(raw))]
    /\ UNCHANGED <<dbvars, pure, page_assets>>

\* lines 114-119 and 195-200 when the router raises: on to the except clause
\* of line 372
Chat_UnknownModel(r) ==
    /\ IsOrchestrator(r)
    /\ At(r, "plan_chat") \/ At(r, "loop_chat")
    /\ chat(run[r].model_id) = "ValueError"
    /\ run' = [run EXCEPT ![r].path = "except", ![r].pc = "exc_status"]
    /\ obs' = [obs EXCEPT ![r].raised = TRUE, ![r].raised_at = run[r].pc]
    /\ UNCHANGED <<dbvars, pure, page_assets>>

(***************************************************************************)
(* run_orchestrator, lines 128-151: the clarification short-circuit.       *)
(***************************************************************************)
ShortCircuit_InsertClarification(r) ==
    /\ At(r, "sc_insert_clarification")
    /\ insert_clarification(r, run[r].question)
    /\ run' = [run EXCEPT ![r].clarification_asked = TRUE, ![r].pc = "sc_status"]
    /\ UNCHANGED <<page, msg_status, replies, edit_history, page_versions, obs, pure, page_assets>>

ShortCircuit_Status(r) ==
    /\ At(r, "sc_status")
    /\ update_message_status(r, "completed")
    /\ Goto(r, "sc_reply")
    /\ UNCHANGED <<page, replies, edit_history, clarification_threads, page_versions, pure, page_assets>>

ShortCircuit_Reply(r) ==
    /\ At(r, "sc_reply")
    /\ insert_assistant_message(r, run[r].question, "clarification",
           [awaiting_clarification |-> TRUE,
            reason |-> PlanGet(run[r].plan, "description", "")])
    /\ Goto(r, "sc_history")
    /\ UNCHANGED <<page, msg_status, edit_history, clarification_threads, page_versions,
                   obs, pure, page_assets>>

ShortCircuit_History_plan_decision(r) ==
    /\ At(r, "sc_history")
    /\ insert_edit_history(r, PlanGet(run[r].plan, "complexity", "simple"),
                           PlanGet(run[r].plan, "decision", "surgical_edit"),
                           <<>>, TRUE, <<>>, TRUE)
    /\ Goto(r, "done")
    /\ UNCHANGED <<page, msg_status, replies, clarification_threads, page_versions,
                   obs, pure, page_assets>>

ShortCircuit_History(r) ==
    /\ At(r, "sc_history")
    /\ insert_edit_history(r, PlanGet(run[r].plan, "complexity", "simple"),
                           "clarification", <<>>, TRUE, <<>>, TRUE)
    /\ Goto(r, "done")
    /\ UNCHANGED <<page, msg_status, replies, clarification_threads, page_versions,
                   obs, pure, page_assets>>

(***************************************************************************)
(* run_orchestrator, steps 6 and 7: the thinking row, the planned web      *)
(* search and the first two entries of the running message sequence.       *)
(***************************************************************************)
InsertThinking(r) ==
    /\ At(r, "insert_thinking")
    /\ replies' = Append(replies, [by |-> r, role |-> "assistant", content |-> "thinking",
                                   status |-> "completed", message_type |-> "thinking",
                                   meta |-> [plan |-> run[r].plan]])
    /\ Goto(r, "plan_search")
    /\ UNCHANGED <<page, msg_status, edit_history, clarification_threads, page_versions,
                   obs, pure, page_assets>>

PlanWantsSearch(r) ==
    /\ PlanGet(run[r].plan, "needs_web_search", FALSE)
    /\ PlanGet(run[r].plan, "search_query", None) \notin {None, ""}

\* agents/knowledge/prompts.py, lines 4-44: one text made of the document,
\* its summary, its component map and the two histories
build_orchestrator_system_prompt(current_html, html_summary, component_map, edits, chats) ==
    <<[current_html |-> current_html, html_summary |-> html_summary,
       component_map |-> component_map, edit_history |-> edits, chat_history |-> chats]>>

Separator == [text |-> "\n\n", file |-> 0]

\* lines 167-181 with both blocks appended whether or not they are empty
system_prompt_always_appends(r, asset_context, search_context) ==
    build_orchestrator_system_prompt(run[r].current_html, run[r].html_summary,
        run[r].component_map, run[r].edit_history, run[r].chat_history)
    \o <<Separator>> \o asset_context
    \o <<Separator, [text |-> search_context, file |-> 0]>>

\* lines 167-181: the text grows by a separator and a block for each block
\* that is not empty
system_prompt(r, asset_context, search_context) ==
    build_orchestrator_system_prompt(run[r].current_html, run[r].html_summary,
        run[r].component_map, run[r].edit_history, run[r].chat_history)
    \o (IF asset_context # <<>> THEN <<Separator>> \o asset_context ELSE <<>>)
    \o (IF search_context # ""
        THEN <<Separator, [text |-> search_context, file |-> 0]>> ELSE <<>>)

\* lines 156-185.  messages is kept as the entries added since the backend
\* last saw it: the code only appends to it and hands it over.
PlanSearch(r) ==
    /\ At(r, "plan_search")
    /\ LET query == PlanGet(run[r].plan, "search_query", None)
           searches == IF PlanWantsSearch(r)
                       THEN Append(run[r].web_searches_used,
                                   [query |-> query, results |-> brave_search(r)])
                       ELSE run[r].web_searches_used
           search_context == IF PlanWantsSearch(r)
                             THEN format_search_results(brave_search(r)) ELSE ""
       IN  run' = [run EXCEPT
               ![r].web_searches_used = searches,
               ![r].messages =
                   [new |-> <<[role |-> "system",
                               content |-> system_prompt(r, run[r].asset_context,
                                                         search_context)],
                              [role |-> "user", content |-> run[r].user_prompt]>>],
               ![r].pc = "loop_head"]
    /\ UNCHANGED <<dbvars, obs, pure, page_assets>>

(***************************************************************************)
(* run_orchestrator, step 8: the tool loop.                                *)
(***************************************************************************)
WithinBudget(r, calls) ==
    /\ CountCalls(calls, "str_replace") + Len(run[r].changes_log) <= MaxLog
    /\ CountCalls(calls, "web_search") + Len(run[r].web_searches_used) <= MaxSearch

\* the tool calls the backend may answer with
Responses(r, offered) ==
    LET shapes == IF run[r].env = "steady" THEN SeqsUpTo(offered \cap SteadyCalls, 1)
                  ELSE IF run[r].env = "duo"
                  THEN (IF run[r].iteration = 1 THEN SeqsUpTo(DuoCalls, 1)
                        ELSE {<<>>})
                  ELSE IF run[r].env = "upload"
                  THEN (IF run[r].iteration = 1 THEN SeqsUpTo(UploadCalls, 1)
                        ELSE {<<>>})
                  ELSE IF run[r].env = "seq"
                  THEN (IF run[r].iteration = 1 THEN SeqsUpTo(SeqCalls, 1)
                        ELSE {<<>>})
                  ELSE IF run[r].env = "sparse"
                  THEN (IF run[r].iteration <= 2 THEN SeqsUpTo(SparseCalls, 1)
                        ELSE {<<>>})
                  ELSE IF run[r].env = "loop"
                  THEN (IF run[r].iteration = 1 THEN SeqsUpTo(offered \cap LoopCalls, 1)
                        ELSE {<<>>})
                  ELSE IF run[r].iteration = 1 THEN SeqsUpTo(offered, MaxCalls)
                  ELSE {<<>>}
    IN  {calls \in shapes : WithinBudget(r, calls)}

Contents(calls) == IF calls = <<>> THEN {"", "all set"} ELSE {""}

\* line 192
LoopContinues_inclusive(r) == run[r].iteration <= max_iterations

LoopContinues(r) == run[r].iteration < max_iterations

\* lines 192-193
LoopHead(r) ==
    /\ At(r, "loop_head")
    /\ IF LoopContinues(r)
       THEN run' = [run EXCEPT ![r].iteration = @ + 1, ![r].pc = "loop_chat"]
       ELSE run' = [run EXCEPT ![r].path = "exit", ![r].pc = "exit_snapshot"]
    /\ UNCHANGED <<dbvars, obs, pure, page_assets>>

\* lines 195-209
LoopChat(r) ==
    /\ At(r, "loop_chat")
    /\ chat(run[r].model_id) # "ValueError"
    /\ \E calls \in Responses(r, ToolCalls) : \E content \in Contents(calls) :
         run' = [run EXCEPT
             ![r].tokens_used = @ + 1,
             ![r].content = content,
             ![r].tool_calls = calls,
             ![r].messages = [@ EXCEPT !.new = <<>>],
             ![r].final_summary =
                 IF calls = <<>>
                 THEN (IF content # "" THEN content ELSE "Changes applied.")
                 ELSE @,
             ![r].tool_results = IF calls = <<>> THEN @ ELSE <<>>,
             ![r].tc = IF calls = <<>> THEN @ ELSE 1,
             ![r].path = IF calls = <<>> THEN "exit" ELSE @,
             ![r].pc = IF calls = <<>> THEN "exit_snapshot" ELSE "tool_call"]
    /\ obs' = [obs EXCEPT ![r].model_calls = @ + 1, ![r].loop_calls = @ + 1,
                          ![r].backends = @ \cup {chat(run[r].model_id)}]
    /\ UNCHANGED <<dbvars, pure, page_assets>>

\* lines 217-220, 256-257, 277, 303 and 310 (agents.py 250-251, 270): what
\* args.get hands back for an argument the call does not carry
ArgDefaults(name) ==
    CASE name = "write_full_file" ->
            [html |-> <<>>, summary |-> "Page created.", html_summary |-> "",
             component_map |-> <<>>]
      [] name = "str_replace" -> [old_str |-> <<>>, new_str |-> <<>>]
      [] name = "ask_clarification" -> [question |-> "Could you clarify?"]
      [] name = "web_search" -> [query |-> ""]
      [] name = "finish" -> [summary |-> "Edits complete."]
      [] OTHER -> [name |-> name]

args_get(call) ==
    LET defaults == ArgDefaults(call.name)
    IN  [k \in (DOMAIN call) \cup (DOMAIN defaults) |->
            IF k \in DOMAIN call THEN call[k] ELSE defaults[k]]

\* the tool call of line 211 with its arguments as the branch reads them
Cur(r) == args_get(run[r].tool_calls[run[r].tc])

AtCall(r, name) ==
    /\ IsOrchestrator(r) /\ At(r, "tool_call")
    /\ Cur(r).name = name

\* the for loop of line 211 moves to the next tool call, or to line 329
AfterCall(rr) ==
    [rr EXCEPT !.tc = @ + 1,
               !.pc = IF rr.tc + 1 > Len(rr.tool_calls) THEN "append_messages"
                      ELSE "tool_call"]

ToolResult(r, text) == [tool_call_id |-> run[r].tc, result |-> text]

EmptyHtmlText == "ERROR: html field is empty. You must provide complete HTML content."

WriteFullFile_Empty_raises(r) ==
    /\ AtCall(r, "write_full_file")
    /\ Cur(r).html = <<>>
    /\ run' = [run EXCEPT ![r].path = "except", ![r].pc = "exc_status"]
    /\ obs' = [obs EXCEPT ![r].executed = @ + 1]
    /\ UNCHANGED <<dbvars, pure, page_assets>>

\* lines 216-227
WriteFullFile_Empty(r) ==
    /\ AtCall(r, "write_full_file")
    /\ Cur(r).html = <<>>
    /\ run' = [run EXCEPT ![r] = AfterCall(
           [run[r] EXCEPT !.tool_results = Append(@, ToolResult(r, EmptyHtmlText))])]
    /\ obs' = [obs EXCEPT ![r].executed = @ + 1]
    /\ UNCHANGED <<dbvars, pure, page_assets>>

WriteLogged(rr, summary) ==
    [rr EXCEPT !.changes_log = Append(@, [tool |-> "write_full_file",
                                           summary |-> summary, success |-> TRUE]),
               !.final_summary = summary,
               !.pc = "wff_snapshot"]

\* lines 229-236 with the summary and map stored whenever the call carries a map
WriteFullFile_UpdateHtml_map_given(r) ==
    /\ AtCall(r, "write_full_file")
    /\ Cur(r).html # <<>>
    /\ page' = [page EXCEPT !.html_content = Cur(r).html]
    /\ LET rr == [run[r] EXCEPT !.current_html = Cur(r).html, !.path = "write_full_file"]
       IN  run' = [run EXCEPT ![r] =
               IF Cur(r).html_summary # "" \/ Cur(r).component_map # <<>>
               THEN [rr EXCEPT !.pc = "wff_update_summary"]
               ELSE WriteLogged(rr, Cur(r).summary)]
    /\ obs' = [obs EXCEPT ![r].executed = @ + 1, ![r].doc_writes = @ + 1,
                          ![r].actions = Append(@, [tool |-> "write_full_file",
                                                    success |-> TRUE]),
                          ![r].terminal = TRUE]
    /\ UNCHANGED <<msg_status, replies, edit_history, clarification_threads,
                   page_versions, pure, page_assets>>

\* lines 229-230, and 235-236 when there is no html_summary to store
WriteFullFile_UpdateHtml(r) ==
    /\ AtCall(r, "write_full_file")
    /\ Cur(r).html # <<>>
    /\ page' = [page EXCEPT !.html_content = Cur(r).html]
    /\ LET rr == [run[r] EXCEPT !.current_html = Cur(r).html, !.path = "write_full_file"]
       IN  run' = [run EXCEPT ![r] =
               IF Cur(r).html_summary # ""
               THEN [rr EXCEPT !.pc = "wff_update_summary"]
               ELSE WriteLogged(rr, Cur(r).summary)]
    /\ obs' = [obs EXCEPT ![r].executed = @ + 1, ![r].doc_writes = @ + 1,
                          ![r].actions = Append(@, [tool |-> "write_full_file",
                                                    success |-> TRUE]),
                          ![r].terminal = TRUE]
    /\ UNCHANGED <<msg_status, replies, edit_history, clarification_threads,
                   page_versions, pure, page_assets>>

\* lines 232-236
WriteFullFile_UpdateSummary_summary_only(r) ==
    /\ At(r, "wff_update_summary")
    /\ page' = [page EXCEPT !.html_summary = Cur(r).html_summary]
    /\ run' = [run EXCEPT ![r] = WriteLogged(run[r], Cur(r).summary)]
    /\ UNCHANGED <<msg_status, replies, edit_history, clarification_threads,
                   page_versions, obs, pure, page_assets>>

WriteFullFile_UpdateSummary(r) ==
    /\ At(r, "wff_update_summary")
    /\ page' = [page EXCEPT !.html_summary = Cur(r).html_summary,
                            !.component_map = Cur(r).component_map]
    /\ run' = [run EXCEPT ![r] = WriteLogged(run[r], Cur(r).summary)]
    /\ UNCHANGED <<msg_status, replies, edit_history, clarification_threads,
                   page_versions, obs, pure, page_assets>>

\* line 237
WriteFullFile_Snapshot(r) ==
    /\ At(r, "wff_snapshot")
    /\ run' = [run EXCEPT ![r] = snapshot_version_select(@, Cur(r).html, "wff_status")]
    /\ UNCHANGED <<dbvars, obs, pure, page_assets>>

\* line 238
WriteFullFile_Status(r) ==
    /\ At(r, "wff_status")
    /\ update_message_status(r, "completed")
    /\ Goto(r, "wff_reply")
    /\ UNCHANGED <<page, replies, edit_history, clarification_threads, page_versions, pure, page_assets>>

\* line 239
WriteFullFile_Reply(r) ==
    /\ At(r, "wff_reply")
    /\ insert_assistant_message(r, Cur(r).summary, "chat", <<>>)
    /\ Goto(r, "wff_history")
    /\ UNCHANGED <<page, msg_status, edit_history, clarification_threads, page_versions,
                   obs, pure, page_assets>>

\* lines 240-253
WriteFullFile_History(r) ==
    /\ At(r, "wff_history")
    /\ insert_edit_history(r, PlanGet(run[r].plan, "complexity", "moderate"),
                           "full_rewrite", run[r].changes_log,
                           run[r].clarification_asked, run[r].web_searches_used, TRUE)
    /\ Goto(r, "done")
    /\ UNCHANGED <<page, msg_status, replies, clarification_threads, page_versions,
                   obs, pure, page_assets>>

NotFoundText ==
    "ERROR: old_str not found in the file. Check for exact whitespace and indentation match. Try a shorter, more unique substring."

\* lines 255-274
StrReplace_from_loaded(r) ==
    /\ AtCall(r, "str_replace")
    /\ LET res == execute_str_replace(run[r].loaded_html, Cur(r).old_str, Cur(r).new_str)
           updated_html == res[1]
           success == res[2]
           entry == [tool |-> "str_replace",
                     old_str_preview |-> Prefix(Cur(r).old_str, PreviewLen),
                     success |-> success]
       IN  /\ run' = [run EXCEPT ![r] = AfterCall(
                  [run[r] EXCEPT !.changes_log = Append(@, entry),
                            !.tool_results = Append(@, ToolResult(r,
                                IF success THEN "replaced successfully" ELSE NotFoundText))])]
           /\ page' = IF success THEN [page EXCEPT !.html_content = updated_html] ELSE page
           /\ obs' = [obs EXCEPT ![r].executed = @ + 1,
                                 ![r].doc_writes = IF success THEN @ + 1 ELSE @,
                                 ![r].actions = Append(@, [tool |-> "str_replace",
                                                           success |-> success]),
                                 ![r].applied = IF success
                                                THEN Append(@, <<Cur(r).old_str, Cur(r).new_str>>)
                                                ELSE @]
    /\ UNCHANGED <<msg_status, replies, edit_history, clarification_threads,
                   page_versions, pure, page_assets>>

StrReplace_on_persisted(r) ==
    /\ AtCall(r, "str_replace")
    /\ LET res == execute_str_replace(page.html_content, Cur(r).old_str, Cur(r).new_str)
           updated_html == res[1]
           success == res[2]
           entry == [tool |-> "str_replace",
                     old_str_preview |-> Prefix(Cur(r).old_str, PreviewLen),
                     success |-> success]
       IN  /\ run' = [run EXCEPT ![r] = AfterCall(
                  [run[r] EXCEPT !.current_html = IF success THEN updated_html ELSE @,
                            !.changes_log = Append(@, entry),
                            !.tool_results = Append(@, ToolResult(r,
                                IF success THEN "replaced successfully" ELSE NotFoundText))])]
           /\ page' = IF success THEN [page EXCEPT !.html_content = updated_html] ELSE page
           /\ obs' = [obs EXCEPT ![r].executed = @ + 1,
                                 ![r].doc_writes = IF success THEN @ + 1 ELSE @,
                                 ![r].actions = Append(@, [tool |-> "str_replace",
                                                           success |-> success]),
                                 ![r].applied = IF success
                                                THEN Append(@, <<Cur(r).old_str, Cur(r).new_str>>)
                                                ELSE @]
    /\ UNCHANGED <<msg_status, replies, edit_history, clarification_threads,
                   page_versions, pure, page_assets>>

StrReplace(r) ==
    /\ AtCall(r, "str_replace")
    /\ LET res == execute_str_replace(run[r].current_html, Cur(r).old_str, Cur(r).new_str)
           updated_html == res[1]
           success == res[2]
           entry == [tool |-> "str_replace",
                     old_str_preview |-> Prefix(Cur(r).old_str, PreviewLen),
                     success |-> success]
       IN  /\ run' = [run EXCEPT ![r] = AfterCall(
                  [run[r] EXCEPT !.current_html = IF success THEN updated_html ELSE @,
                            !.changes_log = Append(@, entry),
                            !.tool_results = Append(@, ToolResult(r,
                                IF success THEN "replaced successfully" ELSE NotFoundText))])]
           /\ page' = IF success THEN [page EXCEPT !.html_content = updated_html] ELSE page
           /\ obs' = [obs EXCEPT ![r].executed = @ + 1,
                                 ![r].doc_writes = IF success THEN @ + 1 ELSE @,
                                 ![r].actions = Append(@, [tool |-> "str_replace",
                                                           success |-> success]),
                                 ![r].applied = IF success
                                                THEN Append(@, <<Cur(r).old_str, Cur(r).new_str>>)
                                                ELSE @]
    /\ UNCHANGED <<msg_status, replies, edit_history, clarification_threads,
                   page_versions, pure, page_assets>>

\* lines 276-279
AskClarification_Insert(r) ==
    /\ AtCall(r, "ask_clarification")
    /\ insert_clarification(r, Cur(r).question)
    /\ run' = [run EXCEPT ![r].question = Cur(r).question,
                          ![r].clarification_asked = TRUE,
                          ![r].path = "ask_clarification",
                          ![r].pc = "ac_status"]
    /\ obs' = [obs EXCEPT ![r].executed = @ + 1, ![r].terminal = TRUE]
    /\ UNCHANGED <<page, msg_status, replies, edit_history, page_versions, pure, page_assets>>

\* line 280
AskClarification_Status(r) ==
    /\ At(r, "ac_status")
    /\ update_message_status(r, "completed")
    /\ Goto(r, "ac_reply")
    /\ UNCHANGED <<page, replies, edit_history, clarification_threads, page_versions, pure, page_assets>>

\* lines 281-286
AskClarification_Reply(r) ==
    /\ At(r, "ac_reply")
    /\ insert_assistant_message(r, run[r].question, "clarification",
                                [awaiting_clarification |-> TRUE])
    /\ Goto(r, "ac_history")
    /\ UNCHANGED <<page, msg_status, edit_history, clarification_threads, page_versions,
                   obs, pure, page_assets>>

\* lines 287-300
AskClarification_History(r) ==
    /\ At(r, "ac_history")
    /\ insert_edit_history(r, PlanGet(run[r].plan, "complexity", "simple"),
                           "clarification", <<>>, TRUE, run[r].web_searches_used, TRUE)
    /\ Goto(r, "done")
    /\ UNCHANGED <<page, msg_status, replies, clarification_threads, page_versions,
                   obs, pure, page_assets>>

\* lines 302-307
WebSearch(r) ==
    /\ AtCall(r, "web_search")
    /\ run' = [run EXCEPT ![r] = AfterCall(
           [run[r] EXCEPT !.web_searches_used =
                         Append(@, [query |-> Cur(r).query, results |-> brave_search(r)]),
                     !.tool_results =
                         Append(@, ToolResult(r, format_search_results(brave_search(r))))])]
    /\ obs' = [obs EXCEPT ![r].executed = @ + 1]
    /\ UNCHANGED <<dbvars, pure, page_assets>>

\* lines 309-311 with the document as it was loaded in place of current_html
Finish_Snapshot_of_loaded(r) ==
    /\ AtCall(r, "finish")
    /\ run' = [run EXCEPT ![r] = snapshot_version_select(
                   [@ EXCEPT !.final_summary = Cur(r).summary, !.path = "finish"],
                   run[r].loaded_html, "fin_status")]
    /\ obs' = [obs EXCEPT ![r].executed = @ + 1, ![r].terminal = TRUE]
    /\ UNCHANGED <<dbvars, pure, page_assets>>

\* lines 309-311
Finish_Snapshot(r) ==
    /\ AtCall(r, "finish")
    /\ run' = [run EXCEPT ![r] = snapshot_version_select(
                   [@ EXCEPT !.final_summary = Cur(r).summary, !.path = "finish"],
                   run[r].current_html, "fin_status")]
    /\ obs' = [obs EXCEPT ![r].executed = @ + 1, ![r].terminal = TRUE]
    /\ UNCHANGED <<dbvars, pure, page_assets>>

\* line 312
Finish_Status(r) ==
    /\ At(r, "fin_status")
    /\ update_message_status(r, "completed")
    /\ Goto(r, "fin_reply")
    /\ UNCHANGED <<page, replies, edit_history, clarification_threads, page_versions, pure, page_assets>>

\* line 313
Finish_Reply(r) ==
    /\ At(r, "fin_reply")
    /\ insert_assistant_message(r, run[r].final_summary, "chat", <<>>)
    /\ Goto(r, "fin_history")
    /\ UNCHANGED <<page, msg_status, edit_history, clarification_threads, page_versions,
                   obs, pure, page_assets>>

\* lines 314-327
Finish_History_no_return(r) ==
    /\ At(r, "fin_history")
    /\ insert_edit_history(r, PlanGet(run[r].plan, "complexity", "simple"),
                           "surgical_edit", run[r].changes_log,
                           run[r].clarification_asked, run[r].web_searches_used, TRUE)
    /\ run' = [run EXCEPT ![r] = AfterCall(run[r])]
    /\ UNCHANGED <<page, msg_status, replies, clarification_threads, page_versions,
                   obs, pure, page_assets>>

Finish_History(r) ==
    /\ At(r, "fin_history")
    /\ insert_edit_history(r, PlanGet(run[r].plan, "complexity", "simple"),
                           "surgical_edit", run[r].changes_log,
                           run[r].clarification_asked, run[r].web_searches_used, TRUE)
    /\ Goto(r, "done")
    /\ UNCHANGED <<page, msg_status, replies, clarification_threads, page_versions,
                   obs, pure, page_assets>>

KnownTools == {"write_full_file", "str_replace", "ask_clarification", "web_search", "finish"}

\* a name none of the branches of lines 216-309 matches: nothing is done
UnknownTool(r) ==
    /\ IsOrchestrator(r) /\ At(r, "tool_call")
    /\ Cur(r).name \notin KnownTools
    /\ run' = [run EXCEPT ![r] = AfterCall(run[r])]
    /\ obs' = [obs EXCEPT ![r].executed = @ + 1]
    /\ UNCHANGED <<dbvars, pure, page_assets>>

AssistantMsg(r) ==
    [role |-> "assistant", content |-> run[r].content,
     tool_calls |-> [i \in DOMAIN run[r].tool_calls |->
                        [id |-> i, type |-> "function",
                         function |-> [name |-> run[r].tool_calls[i].name,
                                       arguments |-> run[r].tool_calls[i]]]]]

\* lines 347-352 with one tool-result turn for every tool call of the response
ToolMsgs_for_every_call(r) ==
    [i \in DOMAIN run[r].tool_calls |->
        [role |-> "tool", tool_call_id |-> i, content |-> "none"]]

\* lines 347-352; agents.py, lines 293-298
ToolMsgs(r) ==
    [i \in DOMAIN run[r].tool_results |->
        [role |-> "tool", tool_call_id |-> run[r].tool_results[i].tool_call_id,
         content |-> run[r].tool_results[i].result]]

\* lines 329-352
AppendMessages(r) ==
    /\ IsOrchestrator(r) /\ At(r, "append_messages")
    /\ run' = [run EXCEPT
           ![r].messages = [new |-> <<AssistantMsg(r)>> \o ToolMsgs(r)],
           ![r].pc = "loop_head"]
    /\ UNCHANGED <<dbvars, obs, pure, page_assets>>

(***************************************************************************)
(* run_orchestrator, lines 354-370: the loop was left without a return.    *)
(***************************************************************************)
\* lines 355-356 without the call of line 355
Exit_Snapshot_not_taken(r) ==
    /\ At(r, "exit_snapshot")
    /\ Goto(r, "exit_status")
    /\ UNCHANGED <<dbvars, obs, pure, page_assets>>

\* line 355
Exit_Snapshot(r) ==
    /\ At(r, "exit_snapshot")
    /\ run' = [run EXCEPT ![r] = snapshot_version_select(@, run[r].current_html,
                                                         "exit_status")]
    /\ UNCHANGED <<dbvars, obs, pure, page_assets>>

Exit_Status(r) ==
    /\ At(r, "exit_status")
    /\ update_message_status(r, "completed")
    /\ Goto(r, "exit_reply")
    /\ UNCHANGED <<page, replies, edit_history, clarification_threads, page_versions, pure, page_assets>>

Exit_Reply_fixed_text(r) ==
    /\ At(r, "exit_reply")
    /\ insert_assistant_message(r, "Done.", "chat", <<>>)
    /\ Goto(r, "exit_history")
    /\ UNCHANGED <<page, msg_status, edit_history, clarification_threads, page_versions,
                   obs, pure, page_assets>>

Exit_Reply(r) ==
    /\ At(r, "exit_reply")
    /\ insert_assistant_message(r, run[r].final_summary, "chat", <<>>)
    /\ Goto(r, "exit_history")
    /\ UNCHANGED <<page, msg_status, edit_history, clarification_threads, page_versions,
                   obs, pure, page_assets>>

Exit_History_no_row(r) ==
    /\ At(r, "exit_history")
    /\ Goto(r, "done")
    /\ UNCHANGED <<dbvars, obs, pure, page_assets>>

\* lines 358-370 with the decision of the finish branch
Exit_History_surgical_edit(r) ==
    /\ At(r, "exit_history")
    /\ insert_edit_history(r, PlanGet(run[r].plan, "complexity", "simple"),
                           "surgical_edit",
                           run[r].changes_log, run[r].clarification_asked,
                           run[r].web_searches_used, TRUE)
    /\ Goto(r, "done")
    /\ UNCHANGED <<page, msg_status, replies, clarification_threads, page_versions,
                   obs, pure, page_assets>>

\* lines 358-370
Exit_History(r) ==
    /\ At(r, "exit_history")
    /\ insert_edit_history(r, PlanGet(run[r].plan, "complexity", "simple"),
                           PlanGet(run[r].plan, "decision", "surgical_edit"),
                           run[r].changes_log, run[r].clarification_asked,
                           run[r].web_searches_used, TRUE)
    /\ Goto(r, "done")
    /\ UNCHANGED <<page, msg_status, replies, clarification_threads, page_versions,
                   obs, pure, page_assets>>

(***************************************************************************)
(* run_orchestrator, lines 372-388: the handler of any exception.          *)
(***************************************************************************)
Except_Status(r) ==
    /\ At(r, "exc_status")
    /\ update_message_status(r, "error")
    /\ Goto(r, "exc_reply")
    /\ UNCHANGED <<page, replies, edit_history, clarification_threads, page_versions, pure, page_assets>>

Except_Reply(r) ==
    /\ At(r, "exc_reply")
    /\ insert_assistant_message(r, "Something went wrong. Please try again.", "chat", <<>>)
    /\ Goto(r, "exc_history")
    /\ UNCHANGED <<page, msg_status, edit_history, clarification_threads, page_versions,
                   obs, pure, page_assets>>

Except_History_as_success(r) ==
    /\ At(r, "exc_history")
    /\ insert_edit_history(r, "unknown", "unknown", run[r].changes_log,
                           run[r].clarification_asked, run[r].web_searches_used, TRUE)
    /\ Goto(r, "done")
    /\ UNCHANGED <<page, msg_status, replies, clarification_threads, page_versions,
                   obs, pure, page_assets>>

\* lines 376-388 with an empty change list, as in the clarification branches
Except_History_no_changes(r) ==
    /\ At(r, "exc_history")
    /\ insert_edit_history(r, "unknown", "unknown", <<>>,
                           run[r].clarification_asked, run[r].web_searches_used, FALSE)
    /\ Goto(r, "done")
    /\ UNCHANGED <<page, msg_status, replies, clarification_threads, page_versions,
                   obs, pure, page_assets>>

\* lines 376-388
Except_History(r) ==
    /\ At(r, "exc_history")
    /\ insert_edit_history(r, "unknown", "unknown", run[r].changes_log,
                           run[r].clarification_asked, run[r].web_searches_used, FALSE)
    /\ Goto(r, "done")
    /\ UNCHANGED <<page, msg_status, replies, clarification_threads, page_versions,
                   obs, pure, page_assets>>

(***************************************************************************)
(* agents.py, run_edit_agent: the single-tool variant.                     *)
(***************************************************************************)
IsEdit(r) == run[r].agent = "edit"

\* line 198
EA_StatusProcessing(r) ==
    /\ IsEdit(r) /\ At(r, "start")
    /\ update_message_status(r, "processing")
    /\ Goto(r, "ea_load")
    /\ UNCHANGED <<page, replies, edit_history, clarification_threads, page_versions, pure, page_assets>>

\* lines 201-216
EA_Load(r) ==
    /\ At(r, "ea_load")
    /\ run' = [run EXCEPT
           ![r].loaded_html = page.html_content,
           ![r].current_html = page.html_content,
           ![r].messages =
               [new |-> <<[role |-> "system",
                           content |-> [current_html |-> page.html_content]],
                          [role |-> "user", content |-> run[r].user_prompt]>>],
           ![r].pc = "ea_loop_head"]
    /\ UNCHANGED <<dbvars, obs, pure, page_assets>>

\* line 223
EA_LoopContinues(r) == run[r].iteration < edit_max_iterations

\* lines 223-224
EA_LoopHead(r) ==
    /\ At(r, "ea_loop_head")
    /\ IF EA_LoopContinues(r)
       THEN run' = [run EXCEPT ![r].iteration = @ + 1, ![r].pc = "ea_chat"]
       ELSE run' = [run EXCEPT ![r].path = "exit", ![r].pc = "ea_exit_snapshot"]
    /\ UNCHANGED <<dbvars, obs, pure, page_assets>>

\* lines 226-243
EA_Chat(r) ==
    /\ At(r, "ea_chat")
    /\ \E calls \in Responses(r, EditToolCalls) : \E content \in Contents(calls) :
         run' = [run EXCEPT
             ![r].content = content,
             ![r].tool_calls = calls,
             ![r].messages = [@ EXCEPT !.new = <<>>],
             ![r].final_summary =
                 IF calls = <<>>
                 THEN (IF content # "" THEN content ELSE "Edits complete.")
                 ELSE @,
             ![r].tool_results = IF calls = <<>> THEN @ ELSE <<>>,
             ![r].tc = IF calls = <<>> THEN @ ELSE 1,
             ![r].path = IF calls = <<>> THEN "exit" ELSE @,
             ![r].pc = IF calls = <<>> THEN "ea_exit_snapshot" ELSE "ea_tool_call"]
    /\ obs' = [obs EXCEPT ![r].model_calls = @ + 1, ![r].loop_calls = @ + 1]
    /\ UNCHANGED <<dbvars, pure, page_assets>>

EA_AtCall(r, name) ==
    /\ IsEdit(r) /\ At(r, "ea_tool_call")
    /\ Cur(r).name = name

EA_AfterCall(rr) ==
    [rr EXCEPT !.tc = @ + 1,
               !.pc = IF rr.tc + 1 > Len(rr.tool_calls) THEN "ea_append"
                      ELSE "ea_tool_call"]

\* lines 249-267
EA_StrReplace(r) ==
    /\ EA_AtCall(r, "str_replace")
    /\ LET res == agents_execute_str_replace(run[r].current_html, Cur(r).old_str,
                                             Cur(r).new_str)
           updated_html == res[1]
           success == res[2]
       IN  /\ run' = [run EXCEPT ![r] = EA_AfterCall(
                  [run[r] EXCEPT !.current_html = IF success THEN updated_html ELSE @,
                            !.tool_results = Append(@, ToolResult(r,
                                IF success THEN "replaced successfully"
                                ELSE "ERROR: old_str not found in file. Make sure it matches exactly."))])]
           /\ page' = IF success THEN [page EXCEPT !.html_content = updated_html] ELSE page
           /\ obs' = [obs EXCEPT ![r].executed = @ + 1,
                                 ![r].doc_writes = IF success THEN @ + 1 ELSE @,
                                 ![r].applied = IF success
                                                THEN Append(@, <<Cur(r).old_str, Cur(r).new_str>>)
                                                ELSE @]
    /\ UNCHANGED <<msg_status, replies, edit_history, clarification_threads,
                   page_versions, pure, page_assets>>

\* lines 269-272
EA_Finish_Snapshot(r) ==
    /\ EA_AtCall(r, "finish")
    /\ run' = [run EXCEPT ![r] = snapshot_version_select(
                   [@ EXCEPT !.final_summary = Cur(r).summary, !.path = "finish"],
                   run[r].current_html, "ea_fin_status")]
    /\ obs' = [obs EXCEPT ![r].executed = @ + 1, ![r].terminal = TRUE]
    /\ UNCHANGED <<dbvars, pure, page_assets>>

\* line 273
EA_Finish_Status(r) ==
    /\ At(r, "ea_fin_status")
    /\ update_message_status(r, "completed")
    /\ Goto(r, "ea_fin_reply")
    /\ UNCHANGED <<page, replies, edit_history, clarification_threads, page_versions, pure, page_assets>>

\* lines 274-275
EA_Finish_Reply(r) ==
    /\ At(r, "ea_fin_reply")
    /\ insert_assistant_message(r, run[r].final_summary, "chat", <<>>)
    /\ Goto(r, "done")
    /\ UNCHANGED <<page, msg_status, edit_history, clarification_threads, page_versions,
                   obs, pure, page_assets>>

\* a name neither branch of lines 249-269 matches
EA_OtherTool(r) ==
    /\ IsEdit(r) /\ At(r, "ea_tool_call")
    /\ Cur(r).name \notin {"str_replace", "finish"}
    /\ run' = [run EXCEPT ![r] = EA_AfterCall(run[r])]
    /\ obs' = [obs EXCEPT ![r].executed = @ + 1]
    /\ UNCHANGED <<dbvars, pure, page_assets>>

\* lines 277-299
EA_Append(r) ==
    /\ At(r, "ea_append")
    /\ run' = [run EXCEPT
           ![r].messages = [new |-> <<AssistantMsg(r)>> \o ToolMsgs(r)],
           ![r].pc = "ea_loop_head"]
    /\ UNCHANGED <<dbvars, obs, pure, page_assets>>

\* line 302
EA_Exit_Snapshot(r) ==
    /\ At(r, "ea_exit_snapshot")
    /\ run' = [run EXCEPT ![r] = snapshot_version_select(@, run[r].current_html,
                                                         "ea_exit_status")]
    /\ UNCHANGED <<dbvars, obs, pure, page_assets>>

\* line 303
EA_Exit_Status(r) ==
    /\ At(r, "ea_exit_status")
    /\ update_message_status(r, "completed")
    /\ Goto(r, "ea_exit_reply")
    /\ UNCHANGED <<page, replies, edit_history, clarification_threads, page_versions, pure, page_assets>>

\* line 304
EA_Exit_Reply(r) ==
    /\ At(r, "ea_exit_reply")
    /\ insert_assistant_message(r, run[r].final_summary, "chat", <<>>)
    /\ Goto(r, "done")
    /\ UNCHANGED <<page, msg_status, edit_history, clarification_threads, page_versions,
                   obs, pure, page_assets>>

\* line 308
EA_Except_Status(r) ==
    /\ At(r, "ea_exc_status")
    /\ update_message_status(r, "error")
    /\ Goto(r, "ea_exc_reply")
    /\ UNCHANGED <<page, replies, edit_history, clarification_threads, page_versions, pure, page_assets>>

\* line 309
EA_Except_Reply(r) ==
    /\ At(r, "ea_exc_reply")
    /\ insert_assistant_message(r, "Something went wrong while editing. Please try again.",
                                "chat", <<>>)
    /\ Goto(r, "done")
    /\ UNCHANGED <<page, msg_status, edit_history, clarification_threads, page_versions,
                   obs, pure, page_assets>>

(***************************************************************************)
(* Exceptions.  A call to the backend, the search provider or the database *)
(* raises instead of returning; inside the try block control moves to the  *)
(* except clause, inside the except clause the exception leaves the        *)
(* coroutine.                                                              *)
(***************************************************************************)
HandlerPcs == {"exc_status", "exc_reply", "exc_history", "ea_exc_status", "ea_exc_reply"}

CallingPcs ==
    {"start", "process_assets", "build_asset_context", "load_page",
     "pending_clarification", "resolve_clarification", "plan_chat", "snapshot_insert",
     "sc_insert_clarification", "sc_status", "sc_reply", "sc_history",
     "insert_thinking", "loop_chat",
     "wff_update_summary", "wff_snapshot", "wff_status", "wff_reply", "wff_history",
     "ac_status", "ac_reply", "ac_history",
     "fin_status", "fin_reply", "fin_history",
     "exit_snapshot", "exit_status", "exit_reply", "exit_history",
     "ea_load", "ea_chat", "ea_fin_status", "ea_fin_reply",
     "ea_exit_snapshot", "ea_exit_status", "ea_exit_reply"}

\* the step the run is about to take makes a call that can raise
MayRaise(r) ==
    \/ run[r].pc \in CallingPcs \cup HandlerPcs
    \/ At(r, "plan_search") /\ PlanWantsSearch(r)
    \/ /\ At(r, "tool_call")
       /\ \/ Cur(r).name \in {"ask_clarification", "web_search", "finish"}
          \/ Cur(r).name = "write_full_file" /\ Cur(r).html # <<>>
          \/ Cur(r).name = "str_replace" /\ Contains(run[r].current_html, Cur(r).old_str)
    \/ At(r, "ea_tool_call")       \* json.loads of the arguments, line 247

\* line 261 has run when update_page_html raises at line 262: the run's copy
\* of the document holds the patch that was not stored
HtmlWhenRaising(r) ==
    IF IsOrchestrator(r) /\ At(r, "tool_call") /\ Cur(r).name = "str_replace"
    THEN execute_str_replace(run[r].current_html, Cur(r).old_str, Cur(r).new_str)[1]
    ELSE run[r].current_html

Raise(r) ==
    /\ MayRaise(r)
    /\ run' = [run EXCEPT
           ![r].current_html = HtmlWhenRaising(r),
           ![r].path = IF run[r].pc \in HandlerPcs THEN @ ELSE "except",
           ![r].pc = IF run[r].pc \in HandlerPcs THEN "crashed"
                     ELSE IF IsEdit(r) THEN "ea_exc_status" ELSE "exc_status"]
    /\ obs' = [obs EXCEPT ![r].raised = TRUE,
                          ![r].raised_at = IF run[r].pc \in HandlerPcs THEN @
                                           ELSE IF run[r].pc \in {"tool_call", "ea_tool_call"}
                                           THEN Cur(r).name
                                           ELSE run[r].pc]
    /\ UNCHANGED <<dbvars, pure, page_assets>>

Step(r) ==
    \/ StatusProcessing(r) \/ ProcessAssets(r) \/ BuildAssetContext(r) \/ LoadPage(r)
    \/ GetPending(r) \/ ResolvePending(r) \/ PlanChat(r)
    \/ ShortCircuit_InsertClarification(r) \/ ShortCircuit_Status(r)
    \/ ShortCircuit_Reply(r) \/ ShortCircuit_History(r)
    \/ InsertThinking(r) \/ PlanSearch(r) \/ LoopHead(r) \/ LoopChat(r)
    \/ WriteFullFile_Empty(r) \/ WriteFullFile_UpdateHtml(r)
    \/ WriteFullFile_UpdateSummary(r) \/ WriteFullFile_Snapshot(r)
    \/ WriteFullFile_Status(r) \/ WriteFullFile_Reply(r) \/ WriteFullFile_History(r)
    \/ StrReplace(r)
    \/ AskClarification_Insert(r) \/ AskClarification_Status(r)
    \/ AskClarification_Reply(r) \/ AskClarification_History(r)
    \/ WebSearch(r)
    \/ Finish_Snapshot(r) \/ Finish_Status(r) \/ Finish_Reply(r) \/ Finish_History(r)
    \/ snapshot_version_insert(r)
    \/ UnknownTool(r) \/ AppendMessages(r)
    \/ Exit_Snapshot(r) \/ Exit_Status(r) \/ Exit_Reply(r) \/ Exit_History(r)
    \/ Except_Status(r) \/ Except_Reply(r) \/ Except_History(r)
    \/ EA_StatusProcessing(r) \/ EA_Load(r) \/ EA_LoopHead(r) \/ EA_Chat(r)
    \/ EA_StrReplace(r) \/ EA_Finish_Snapshot(r) \/ EA_Finish_Status(r)
    \/ EA_Finish_Reply(r) \/ EA_OtherTool(r) \/ EA_Append(r)
    \/ EA_Exit_Snapshot(r) \/ EA_Exit_Status(r) \/ EA_Exit_Reply(r)
    \/ EA_Except_Status(r) \/ EA_Except_Reply(r)
    \/ Raise(r)

Next == \E r \in Runs : Step(r)

Spec == Init /\ [][Next]_vars

\* The event loop keeps running a coroutine that can take a step: each call
\* it waits for returns or raises.
SpecFair == Init /\ [][Next]_vars /\ \A r \in Runs : WF_vars(Step(r))

(***************************************************************************)
(* Two requests on one page at once.  The dispatcher starts a request      *)
(* without waiting for the one before it, and run_orchestrator holds no    *)
(* lock and opens no transaction, so the database sees the calls of the    *)
(* two requests in any order: each call is a step of its own.  No call     *)
(* raises here.                                                            *)
(***************************************************************************)
InitTwo ==
    /\ run = [r \in Runs |-> StartRun("orchestrator", "duo", IF r = "r1" THEN "p1" ELSE "p2")]
    /\ page = [html_content |-> DocPlain, html_summary |-> "", component_map |-> <<>>]
    /\ \/ FreshTables
       \/ /\ replies = <<EarlierReply>>
          /\ edit_history = <<EarlierHistory>>
          /\ clarification_threads = <<EarlierThread>>
          /\ page_versions = EarlierVersions
    /\ msg_status = [r \in Runs |-> "pending"]
    /\ obs = [r \in Runs |-> IdleObs]
    /\ pure = NoPure
    /\ page_assets = <<>>

StepTwo(r) ==
    \/ StatusProcessing(r) \/ ProcessAssets(r) \/ BuildAssetContext(r) \/ LoadPage(r)
    \/ GetPending(r) \/ ResolvePending(r) \/ PlanChat(r)
    \/ ShortCircuit_InsertClarification(r) \/ ShortCircuit_Status(r)
    \/ ShortCircuit_Reply(r) \/ ShortCircuit_History(r)
    \/ InsertThinking(r) \/ PlanSearch(r) \/ LoopHead(r) \/ LoopChat(r)
    \/ StrReplace(r) \/ AppendMessages(r)
    \/ AskClarification_Insert(r) \/ AskClarification_Status(r)
    \/ AskClarification_Reply(r) \/ AskClarification_History(r)
    \/ Finish_Snapshot(r) \/ Finish_Status(r) \/ Finish_Reply(r) \/ Finish_History(r)
    \/ snapshot_version_insert(r)
    \/ Exit_Snapshot(r) \/ Exit_Status(r) \/ Exit_Reply(r) \/ Exit_History(r)

NextTwo == \E r \in Runs : StepTwo(r)

SpecTwo == InitTwo /\ [][NextTwo]_vars

(***************************************************************************)
(* Two requests on one page, one after the other: the second is started    *)
(* when the first has ended, by its return or by an exception that left    *)
(* the except clause.  Every call of either request may raise.             *)
(***************************************************************************)
InitSeq ==
    /\ run = [r \in Runs |-> IF r = "r1" THEN StartRun("orchestrator", "seq", "p1")
                                         ELSE [IdleRun EXCEPT !.env = "seq"]]
    /\ page = [html_content |-> DocPlain, html_summary |-> "", component_map |-> <<>>]
    /\ \/ FreshTables
       \/ /\ replies = <<EarlierReply>>
          /\ edit_history = <<EarlierHistory>>
          /\ clarification_threads = <<EarlierThread>>
          /\ page_versions = EarlierVersions
    /\ msg_status = [r \in Runs |-> IF run[r].pc = "off" THEN "none" ELSE "pending"]
    /\ obs = [r \in Runs |-> IdleObs]
    /\ pure = NoPure
    /\ page_assets = <<>>

Ended(r) == run[r].pc \in {"done", "crashed"}

\* the user's next message: run_orchestrator is invoked for it once the
\* invocation before it has ended
StartNext(r) ==
    /\ r = "r2" /\ At(r, "off") /\ Ended("r1")
    /\ run' = [run EXCEPT ![r] = StartRun("orchestrator", "seq", "p2")]
    /\ msg_status' = [msg_status EXCEPT ![r] = "pending"]
    /\ UNCHANGED <<page, replies, edit_history, clarification_threads, page_versions,
                   obs, pure, page_assets>>

StepSeq(r) ==
    \/ StartNext(r)
    \/ StatusProcessing(r) \/ ProcessAssets(r) \/ BuildAssetContext(r) \/ LoadPage(r)
    \/ GetPending(r) \/ ResolvePending(r) \/ PlanChat(r)
    \/ ShortCircuit_InsertClarification(r) \/ ShortCircuit_Status(r)
    \/ ShortCircuit_Reply(r) \/ ShortCircuit_History(r)
    \/ InsertThinking(r) \/ PlanSearch(r) \/ LoopHead(r) \/ LoopChat(r)
    \/ AskClarification_Insert(r) \/ AskClarification_Status(r)
    \/ AskClarification_Reply(r) \/ AskClarification_History(r)
    \/ Finish_Snapshot(r) \/ Finish_Status(r) \/ Finish_Reply(r) \/ Finish_History(r)
    \/ snapshot_version_insert(r)
    \/ Exit_Snapshot(r) \/ Exit_Status(r) \/ Exit_Reply(r) \/ Exit_History(r)
    \/ Except_Status(r) \/ Except_Reply(r) \/ Except_History(r)
    \/ Raise(r)

NextSeq == \E r \in Runs : StepSeq(r)

SpecSeq == InitSeq /\ [][NextSeq]_vars

(***************************************************************************)
(* A request on a page with uploaded files.  The page has MaxAssets        *)
(* top-level assets, pending or ready; the request comes with or without   *)
(* an owner id.  No call of run_orchestrator itself raises here; inside    *)
(* the asset pipeline every call may.                                      *)
(***************************************************************************)
MaxAssets == 2

AssetTypes == {"image", "document", "archive"}

UploadedRows ==
    [asset_type : AssetTypes, processing_status : {"pending", "ready"},
     parent_asset_id : {0}]

InitAssets ==
    /\ run \in {[r \in Runs |-> IF r = "r1"
                                THEN [StartRun("orchestrator", "upload", "p1")
                                          EXCEPT !.owner_id = owner]
                                ELSE IdleRun] : owner \in {None, "u1"}}
    /\ page = [html_content |-> DocPlain, html_summary |-> "", component_map |-> <<>>]
    /\ FreshTables
    /\ msg_status = [r \in Runs |-> IF run[r].pc = "off" THEN "none" ELSE "pending"]
    /\ obs = [r \in Runs |-> IdleObs]
    /\ pure = NoPure
    /\ page_assets \in [1..MaxAssets -> UploadedRows]

StepAssets(r) ==
    \/ StatusProcessing(r) \/ ProcessAssets(r)
    \/ \E k \in 1..MaxAssets :
          \/ process_one_Started(r, k) \/ process_one_Download(r, k)
          \/ process_image(r, k) \/ process_document(r, k)
          \/ process_embedded_image_Upload(r, k) \/ process_embedded_image_Vision(r, k)
          \/ process_one_Raise(r, k) \/ process_one_Except(r, k)
    \/ ProcessAssets_Return(r)
    \/ BuildAssetContext(r) \/ LoadPage(r) \/ GetPending(r) \/ PlanChat(r)
    \/ InsertThinking(r) \/ PlanSearch(r) \/ LoopHead(r) \/ LoopChat(r)
    \/ Finish_Snapshot(r) \/ Finish_Status(r) \/ Finish_Reply(r) \/ Finish_History(r)
    \/ snapshot_version_insert(r)
    \/ Exit_Snapshot(r) \/ Exit_Status(r) \/ Exit_Reply(r) \/ Exit_History(r)

NextAssets == \E r \in Runs : StepAssets(r)

SpecAssets == InitAssets /\ [][NextAssets]_vars

(***************************************************************************)
(* A request with any model id, registered or not, on a fresh page or on   *)
(* a page with an open clarification thread.  No call raises but the       *)
(* router's.                                                               *)
(***************************************************************************)
ModelIds == GROQ_MODELS \cup CLAUDE_MODELS \cup {"openai/gpt-4o"}

InitRouter ==
    /\ run \in {[r \in Runs |-> IF r = "r1"
                                THEN [StartRun("orchestrator", "upload", "p1")
                                          EXCEPT !.model_id = m]
                                ELSE IdleRun] : m \in ModelIds}
    /\ page = [html_content |-> DocPlain, html_summary |-> "", component_map |-> <<>>]
    /\ \/ FreshTables
       \/ /\ replies = <<EarlierReply>>
          /\ edit_history = <<EarlierHistory>>
          /\ clarification_threads = <<EarlierThread>>
          /\ page_versions = EarlierVersions
    /\ msg_status = [r \in Runs |-> IF run[r].pc = "off" THEN "none" ELSE "pending"]
    /\ obs = [r \in Runs |-> IdleObs]
    /\ pure = NoPure
    /\ page_assets = <<>>

StepRouter(r) ==
    \/ StatusProcessing(r) \/ ProcessAssets(r) \/ BuildAssetContext(r) \/ LoadPage(r)
    \/ GetPending(r) \/ ResolvePending(r) \/ PlanChat(r) \/ Chat_UnknownModel(r)
    \/ InsertThinking(r) \/ PlanSearch(r) \/ LoopHead(r) \/ LoopChat(r)
    \/ Finish_Snapshot(r) \/ Finish_Status(r) \/ Finish_Reply(r) \/ Finish_History(r)
    \/ snapshot_version_insert(r)
    \/ Exit_Snapshot(r) \/ Exit_Status(r) \/ Exit_Reply(r) \/ Exit_History(r)
    \/ Except_Status(r) \/ Except_Reply(r) \/ Except_History(r)

NextRouter == \E r \in Runs : StepRouter(r)

SpecRouter == InitRouter /\ [][NextRouter]_vars

(***************************************************************************)
(* main.py: the endpoint POST /agent/run.  It starts run_create_agent or   *)
(* run_edit_agent as a task of the event loop and answers; the task takes  *)
(* its first step after the endpoint has returned.  run_create_agent is    *)
(* not modelled further.                                                   *)
(***************************************************************************)
\* database.py, lines 16-18.  What .single() yields without a matching row
\* is the client library's choice: no data, or an exception.
get_page(page_id) == IF page_id = PageId THEN {"row"} ELSE {"None", "APIError"}

\* main.py, lines 43-47
is_first_prompt(current_html) ==
    \/ current_html = <<>>
    \/ current_html = INITIAL_BOILERPLATE
    \/ Contains(current_html, Sentinel)

\* the classes line 62 catches: HTTPException derives from Exception
ExceptionClasses == {"Exception", "HTTPException", "APIError", "RuntimeError"}

\* lines 37-60: how the try block ends
agent_run_try(got, task) ==
    IF got = "APIError" THEN [raised |-> "APIError", status_code |-> 0]
    ELSE IF got = "None" THEN [raised |-> "HTTPException", status_code |-> 404]
    ELSE IF task # "created" THEN [raised |-> task, status_code |-> 0]
    ELSE [raised |-> "none", status_code |-> 200]

\* lines 37-63: the answer of the endpoint
agent_run(got, task, current_html) ==
    LET tried == agent_run_try(got, task)
    IN  IF tried.raised \in ExceptionClasses
        THEN [status_code |-> 500, status |-> "error", agent |-> "none"]
        ELSE [status_code |-> 200, status |-> "accepted",
              agent |-> IF is_first_prompt(current_html) THEN "create" ELSE "edit"]

AgentRun(r) ==
    /\ At(r, "agent_run")
    /\ \E got \in get_page(run[r].page_id) : \E task \in {"created", "RuntimeError"} :
          LET response == agent_run(got, task, page.html_content)
          IN  run' = [run EXCEPT
                  ![r].http = response,
                  ![r].agent = IF response.status_code = 200 THEN response.agent ELSE @,
                  ![r].pc = IF response.status_code = 200 THEN "start" ELSE "responded"]
    /\ UNCHANGED <<dbvars, obs, pure, page_assets>>

PageIds == {PageId, "page2"}

InitEndpoint ==
    /\ run \in {[r \in Runs |-> IF r = "r1"
                                THEN [IdleRun EXCEPT !.agent = "none", !.env = "steady",
                                                     !.pc = "agent_run",
                                                     !.user_prompt = [text |-> "p1"],
                                                     !.page_id = id]
                                ELSE IdleRun] : id \in PageIds}
    /\ page \in {[html_content |-> h, html_summary |-> "", component_map |-> <<>>] :
                   h \in {<<>>, INITIAL_BOILERPLATE, DocSentinel, DocPlain}}
    /\ FreshTables
    /\ msg_status = [r \in Runs |-> IF run[r].pc = "off" THEN "none" ELSE "pending"]
    /\ obs = [r \in Runs |-> IdleObs]
    /\ pure = NoPure
    /\ page_assets = <<>>

StepEndpoint(r) ==
    \/ AgentRun(r)
    \/ EA_StatusProcessing(r) \/ EA_Load(r) \/ EA_LoopHead(r) \/ EA_Chat(r)
    \/ EA_StrReplace(r) \/ EA_Finish_Snapshot(r) \/ EA_Finish_Status(r)
    \/ EA_Finish_Reply(r) \/ EA_OtherTool(r) \/ EA_Append(r)
    \/ snapshot_version_insert(r)
    \/ EA_Exit_Snapshot(r) \/ EA_Exit_Status(r) \/ EA_Exit_Reply(r)

NextEndpoint == \E r \in Runs : StepEndpoint(r)

SpecEndpoint == InitEndpoint /\ [][NextEndpoint]_vars

(***************************************************************************)
(* Two requests in one event loop.  asyncio runs one coroutine at a time   *)
(* and hands the loop to another only where the running one awaits         *)
(* something that is not ready: a request that has begun keeps the loop    *)
(* through every blocking call (the database, the model backend, storage)  *)
(* until it reaches such an await or ends.  No call raises here.           *)
(***************************************************************************)
\* orchestrator.py line 73 with asset_pipeline.py line 41: the gather of the
\* _process_one coroutines, none of which is running;
\* orchestrator.py lines 157 and 304 with search_tools.py lines 6-22: the
\* request to the search service, made only with a key
AwaitsFanOut(r) == IsOrchestrator(r) /\ At(r, "gather") /\ run[r].running_task = 0

AwaitsSearch(r) ==
    /\ run[r].BRAVE_SEARCH_API_KEY
    /\ \/ IsOrchestrator(r) /\ At(r, "plan_search") /\ PlanWantsSearch(r)
       \/ AtCall(r, "web_search")

\* the awaits of run_orchestrator with the model backend's calls added to them
Suspended_at_model_calls(r) ==
    AwaitsFanOut(r) \/ AwaitsSearch(r) \/ At(r, "loop_chat") \/ At(r, "ea_chat")

\* the awaits of run_orchestrator that suspend it; run_edit_agent has none
Suspended(r) == AwaitsFanOut(r) \/ AwaitsSearch(r)

\* a coroutine the loop has not begun, or one that has ended
Outside(r) == run[r].pc \in {"off", "start", "done", "crashed"}

\* the loop runs r when no other request is in the middle of a stretch
LoopFree(r) == \A q \in Runs \ {r} : Outside(q) \/ Suspended(q)

LoopAssets == {<<>>, <<[asset_type |-> "image", processing_status |-> "pending",
                        parent_asset_id |-> 0]>>}

InitLoop ==
    /\ run \in {[r \in Runs |->
                    [StartRun(IF r = "r1" THEN "orchestrator" ELSE a, "loop",
                              IF r = "r1" THEN "p1" ELSE "p2")
                        EXCEPT !.BRAVE_SEARCH_API_KEY = key]] :
                  a \in {"orchestrator", "edit"}, key \in BOOLEAN}
    /\ page = [html_content |-> DocPlain, html_summary |-> "", component_map |-> <<>>]
    /\ FreshTables
    /\ msg_status = [r \in Runs |-> "pending"]
    /\ obs = [r \in Runs |-> IdleObs]
    /\ pure = NoPure
    /\ page_assets \in LoopAssets

StepLoop(r) ==
    \/ LoopFree(r) /\ StatusProcessing(r)
    \/ LoopFree(r) /\ ProcessAssets(r)
    \/ \E k \in 1..MaxAssets :
          \/ LoopFree(r) /\ process_one_Started(r, k)
          \/ LoopFree(r) /\ process_one_Download(r, k)
          \/ LoopFree(r) /\ process_image(r, k)
    \/ LoopFree(r) /\ ProcessAssets_Return(r)
    \/ LoopFree(r) /\ BuildAssetContext(r)
    \/ LoopFree(r) /\ LoadPage(r)
    \/ LoopFree(r) /\ GetPending(r)
    \/ LoopFree(r) /\ PlanChat(r)
    \/ LoopFree(r) /\ InsertThinking(r)
    \/ LoopFree(r) /\ PlanSearch(r)
    \/ LoopFree(r) /\ LoopHead(r)
    \/ LoopFree(r) /\ LoopChat(r)
    \/ LoopFree(r) /\ StrReplace(r)
    \/ LoopFree(r) /\ WebSearch(r)
    \/ LoopFree(r) /\ AppendMessages(r)
    \/ LoopFree(r) /\ Finish_Snapshot(r)
    \/ LoopFree(r) /\ Finish_Status(r)
    \/ LoopFree(r) /\ Finish_Reply(r)
    \/ LoopFree(r) /\ Finish_History(r)
    \/ LoopFree(r) /\ snapshot_version_insert(r)
    \/ LoopFree(r) /\ Exit_Snapshot(r)
    \/ LoopFree(r) /\ Exit_Status(r)
    \/ LoopFree(r) /\ Exit_Reply(r)
    \/ LoopFree(r) /\ Exit_History(r)
    \/ LoopFree(r) /\ EA_StatusProcessing(r)
    \/ LoopFree(r) /\ EA_Load(r)
    \/ LoopFree(r) /\ EA_LoopHead(r)
    \/ LoopFree(r) /\ EA_Chat(r)
    \/ LoopFree(r) /\ EA_StrReplace(r)
    \/ LoopFree(r) /\ EA_OtherTool(r)
    \/ LoopFree(r) /\ EA_Append(r)
    \/ LoopFree(r) /\ EA_Finish_Snapshot(r)
    \/ LoopFree(r) /\ EA_Finish_Status(r)
    \/ LoopFree(r) /\ EA_Finish_Reply(r)
    \/ LoopFree(r) /\ EA_Exit_Snapshot(r)
    \/ LoopFree(r) /\ EA_Exit_Status(r)
    \/ LoopFree(r) /\ EA_Exit_Reply(r)

NextLoop == \E r \in Runs : StepLoop(r)

SpecLoop == InitLoop /\ [][NextLoop]_vars

(***************************************************************************)
(* A backend that leaves arguments out of its tool calls, on a page with   *)
(* any document and a stored summary and component map: every argument is  *)
(* read with args.get and a default.  No call raises here.                 *)
(***************************************************************************)
StoredSummary == "earlier summary"
StoredMap == <<"c0">>

InitArgs ==
    /\ run = [r \in Runs |-> IF r = "r1" THEN StartRun("orchestrator", "sparse", "p1")
                                         ELSE IdleRun]
    /\ page \in {[html_content |-> h, html_summary |-> StoredSummary,
                  component_map |-> StoredMap] : h \in StringsUpTo(MaxDocLen)}
    /\ FreshTables
    /\ msg_status = [r \in Runs |-> IF run[r].pc = "off" THEN "none" ELSE "pending"]
    /\ obs = [r \in Runs |-> IdleObs]
    /\ pure = NoPure
    /\ page_assets = <<>>

StepArgs(r) ==
    \/ StatusProcessing(r) \/ ProcessAssets(r) \/ BuildAssetContext(r) \/ LoadPage(r)
    \/ GetPending(r) \/ PlanChat(r)
    \/ InsertThinking(r) \/ PlanSearch(r) \/ LoopHead(r) \/ LoopChat(r)
    \/ WriteFullFile_Empty(r) \/ WriteFullFile_UpdateHtml(r)
    \/ WriteFullFile_UpdateSummary(r) \/ WriteFullFile_Snapshot(r)
    \/ WriteFullFile_Status(r) \/ WriteFullFile_Reply(r) \/ WriteFullFile_History(r)
    \/ StrReplace(r) \/ AppendMessages(r)
    \/ Finish_Snapshot(r) \/ Finish_Status(r) \/ Finish_Reply(r) \/ Finish_History(r)
    \/ snapshot_version_insert(r)
    \/ Exit_Snapshot(r) \/ Exit_Status(r) \/ Exit_Reply(r) \/ Exit_History(r)

NextArgs == \E r \in Runs : StepArgs(r)

SpecArgs == InitArgs /\ [][NextArgs]_vars

(***************************************************************************)
(* The patch executor on its own: every document and every pair of search  *)
(* and replacement strings within the bounds, handed to either copy.       *)
(***************************************************************************)
PureInputs ==
    [fn : {"input"}, current_html : StringsUpTo(MaxDocLen),
     old_str : StringsUpTo(MaxArgLen), new_str : StringsUpTo(MaxArgLen)]

InitPure ==
    /\ run = [r \in Runs |-> IdleRun]
    /\ page = [html_content |-> <<>>, html_summary |-> "", component_map |-> <<>>]
    /\ msg_status = [r \in Runs |-> "none"]
    /\ replies = <<>>
    /\ edit_history = <<>>
    /\ clarification_threads = <<>>
    /\ page_versions = <<>>
    /\ obs = [r \in Runs |-> IdleObs]
    /\ pure \in PureInputs
    /\ page_assets = <<>>

PureResult(fn, res) ==
    [fn |-> fn, current_html |-> pure.current_html, old_str |-> pure.old_str,
     new_str |-> pure.new_str, updated_html |-> res[1], success |-> res[2]]

\* agents/tools/html_tools.py
Call_execute_str_replace ==
    /\ pure.fn = "input"
    /\ pure' = PureResult("execute_str_replace",
                   execute_str_replace(pure.current_html, pure.old_str, pure.new_str))
    /\ UNCHANGED <<run, dbvars, obs, page_assets>>

\* agents.py
Call_agents_execute_str_replace ==
    /\ pure.fn = "input"
    /\ pure' = PureResult("agents.execute_str_replace",
                   agents_execute_str_replace(pure.current_html, pure.old_str, pure.new_str))
    /\ UNCHANGED <<run, dbvars, obs, page_assets>>

NextPure == Call_execute_str_replace \/ Call_agents_execute_str_replace

SpecPure == InitPure /\ [][NextPure]_vars

(***************************************************************************)
(* Properties of the patch executor.                                       *)
(***************************************************************************)
Returned == pure.fn \in {"execute_str_replace", "agents.execute_str_replace"}

\* the positions at which s occurs in h
Positions(h, s) == {i \in 1..(Len(h) + 1) : OccursAt(h, s, i)}

\* Python's h.count(s): occurrences counted left to right without overlap
RECURSIVE Count(_, _)
Count(h, s) ==
    IF s = <<>> THEN Len(h) + 1
    ELSE IF Positions(h, s) = {} THEN 0
    ELSE LET i == CHOOSE p \in Positions(h, s) : \A q \in Positions(h, s) : p <= q
         IN  1 + Count(SubSeq(h, i + Len(s), Len(h)), s)

\* h with the Len(s) characters at position i replaced by t
Splice(h, i, s, t) == SubSeq(h, 1, i - 1) \o t \o SubSeq(h, i + Len(s), Len(h))

\* C6: when old_str occurs exactly once in the document, execute_str_replace
\* (either copy) reports success and returns the document with that one
\* occurrence replaced by new_str, so its length changes by exactly
\* len(new_str) - len(old_str).
C6_SingleOccurrenceReplaced ==
    (Returned /\ Count(pure.current_html, pure.old_str) = 1) =>
        /\ pure.success
        /\ \E i \in Positions(pure.current_html, pure.old_str) :
               pure.updated_html = Splice(pure.current_html, i, pure.old_str, pure.new_str)
        /\ Len(pure.updated_html) - Len(pure.current_html)
               = Len(pure.new_str) - Len(pure.old_str)

\* a single occurrence at the very start of the document, replaced by a longer text
C6_Witness ==
    /\ Returned
    /\ pure.current_html = <<"a", "b", "b">>
    /\ pure.old_str = <<"a">>
    /\ pure.new_str = <<"b", "a">>
    /\ pure.updated_html = <<"b", "a", "b", "b">>

\* C8: when old_str occurs more than once, execute_str_replace succeeds and
\* replaces the leftmost occurrence only: the text before it and the text
\* after it are unchanged, so every other occurrence is still there.
C8_OnlyLeftmostReplaced ==
    (Returned /\ pure.fn = "execute_str_replace"
              /\ Count(pure.current_html, pure.old_str) > 1) =>
        LET h == pure.current_html
            old == pure.old_str
            first == CHOOSE p \in Positions(h, old) : \A q \in Positions(h, old) : p <= q
            shift == Len(pure.new_str) - Len(old)
        IN  /\ pure.success
            /\ pure.updated_html = Splice(h, first, old, pure.new_str)
            /\ SubSeq(pure.updated_html, 1, first - 1) = SubSeq(h, 1, first - 1)
            /\ \A q \in Positions(h, old) :
                   q >= first + Len(old) /\ q > first
                       => OccursAt(pure.updated_html, old, q + shift)

\* three occurrences, the first of them replaced and the other two kept
C8_Witness ==
    /\ pure.fn = "execute_str_replace"
    /\ pure.current_html = <<"b", "a", "a", "a">>
    /\ pure.old_str = <<"a">>
    /\ pure.new_str = <<"b", "b">>
    /\ pure.updated_html = <<"b", "b", "b", "a", "a">>

(***************************************************************************)
(* Properties of a request.                                                *)
(***************************************************************************)
HistoryRows(r) == {i \in DOMAIN edit_history : edit_history[i].message_id = r}

ThreadsOf(r) == {i \in DOMAIN clarification_threads : clarification_threads[i].message_id = r}

ClarificationReplies(r) ==
    {i \in DOMAIN replies : replies[i].by = r /\ replies[i].message_type = "clarification"}

\* the document after the patches that succeeded so far, in the order they ran
RECURSIVE ApplyAll(_, _)
ApplyAll(h, patches) ==
    IF patches = <<>> THEN h
    ELSE ApplyAll(Replace1(h, patches[1][1], patches[1][2]), Tail(patches))

DocNow(r) == ApplyAll(run[r].loaded_html, obs[r].applied)

\* the request ran one tool call in this step
Executes(r) == obs'[r].executed = obs[r].executed + 1

Last(s) == s[Len(s)]

\* C1: a request whose loaded document is the blank placeholder yields
\* decision full_rewrite, in its plan and in every edit-history row it
\* records, and creates no clarification thread and no clarification reply,
\* whatever the planner returned and whatever tools the model calls.
C1_BlankNeverClarifies ==
    \A r \in Runs :
        (IsOrchestrator(r) /\ run[r].is_new_page /\ IsObject(run[r].plan)
                           /\ ~obs[r].raised) =>
            /\ PlanGet(run[r].plan, "decision", None) = "full_rewrite"
            /\ \A i \in HistoryRows(r) : edit_history[i].decision = "full_rewrite"
            /\ ThreadsOf(r) = {}
            /\ ClarificationReplies(r) = {}

Ceiling(r) == IF IsEdit(r) THEN edit_max_iterations ELSE max_iterations

\* C2: the tool loop makes at most 15 (run_orchestrator) or 10
\* (run_edit_agent) model calls, and a request that used every iteration
\* without a terminal tool firing, none of its collaborators raising, ends
\* with status completed, never error, a success outcome and the document
\* equal to the loaded one with the successful patches applied.
C2_CeilingEndsCompleted ==
    \A r \in Runs :
        /\ obs[r].loop_calls <= Ceiling(r)
        /\ (/\ run[r].pc = "done" /\ obs[r].loop_calls = Ceiling(r)
            /\ ~obs[r].terminal /\ ~obs[r].raised) =>
               /\ msg_status[r] = "completed"
               /\ obs[r].status_log = <<"processing", "completed">>
               /\ IsOrchestrator(r) =>
                      /\ HistoryRows(r) # {}
                      /\ \A i \in HistoryRows(r) : edit_history[i].success
               /\ page.html_content = DocNow(r)
               /\ Last(page_versions).html_snapshot = DocNow(r)

\* the orchestrator spent all 15 turns, the last one on a tool call too, and
\* a patch of an earlier turn is in the document it ends with
C2_Witness ==
    /\ run["r1"].pc = "done" /\ IsOrchestrator("r1")
    /\ obs["r1"].loop_calls = max_iterations
    /\ run["r1"].tool_calls # <<>>
    /\ ~obs["r1"].terminal /\ ~obs["r1"].raised
    /\ obs["r1"].applied # <<>>
    /\ msg_status["r1"] = "completed"

Terminal == {"completed", "error"}

\* C3: the status of a request's message goes pending, processing, then
\* completed or error, and a terminal value is written exactly once: after
\* completed or error no status is written again, on any path of
\* run_orchestrator.
C3_OneTerminalStatusWrite ==
    \A r \in Runs :
        IsOrchestrator(r) =>
            \A i \in DOMAIN obs[r].status_log :
                obs[r].status_log[i] \in Terminal => i = Len(obs[r].status_log)

TerminalPaths == {"write_full_file", "ask_clarification", "finish"}

\* C4: once a write_full_file with non-empty html, an ask_clarification or a
\* finish call has been executed, the request runs no further tool call of
\* that turn, makes no further model call and does not write the document
\* again; unless a persistence call raises it ends recorded, with status
\* completed.
C4_TerminalToolReturns ==
    [][\A r \in Runs :
          obs[r].terminal =>
              /\ obs'[r].executed = obs[r].executed
              /\ obs'[r].model_calls = obs[r].model_calls
              /\ obs'[r].doc_writes = obs[r].doc_writes
              /\ run'[r].current_html = run[r].current_html
              /\ run'[r].tc = run[r].tc
              /\ (run'[r].pc = "done" /\ run'[r].path \in TerminalPaths) =>
                     /\ msg_status'[r] = "completed"
                     /\ IsOrchestrator(r) => HistoryRows(r)' # {}
      ]_vars

\* ask_clarification came first of two calls in a turn; the request is
\* over and the second call was never run
C4_Witness ==
    /\ run["r1"].pc = "done" /\ run["r1"].path = "ask_clarification"
    /\ Len(run["r1"].tool_calls) = 2 /\ run["r1"].tc = 1
    /\ run["r1"].tool_calls[2].name = "str_replace"
    /\ obs["r1"].executed = 1 /\ obs["r1"].doc_writes = 0

ToolPcs == {"tool_call", "ea_tool_call"}

\* C5: the tool calls of a turn run in the order returned, one after the
\* other from the first, and a str_replace searches the document as the
\* successful str_replace calls before it (of this turn and of earlier
\* turns) left it, not the document loaded at the start.
C5_PatchesSeeEarlierPatches ==
    [][\A r \in Runs :
          /\ (run[r].pc \in {"loop_chat", "ea_chat"} /\ run'[r].pc \in ToolPcs)
                 => run'[r].tc = 1
          /\ Executes(r) =>
                 /\ run[r].pc \in ToolPcs
                 /\ obs'[r].terminal \/ run'[r].tc = run[r].tc + 1
                 /\ Cur(r).name = "str_replace" =>
                        LET doc == DocNow(r)
                            found == Positions(doc, Cur(r).old_str) # {}
                        IN  /\ found =>
                                  /\ page'.html_content
                                         = Replace1(doc, Cur(r).old_str, Cur(r).new_str)
                                  /\ Last(run'[r].tool_results).result = "replaced successfully"
                            /\ ~found =>
                                  /\ page' = page
                                  /\ Last(run'[r].tool_results).result # "replaced successfully"
      ]_vars

\* "aba": the first call of the turn turned it into "bba", and the second
\* found the "bb" that only exists after the first
C5_Witness ==
    /\ run["r1"].loaded_html = DocPlain
    /\ run["r1"].iteration = 1
    /\ run["r1"].tool_calls = <<PatchA, PatchBB>>
    /\ run["r1"].tc = 3
    /\ obs["r1"].applied = <<<<PatchA.old_str, PatchA.new_str>>,
                             <<PatchBB.old_str, PatchBB.new_str>>>>
    /\ page.html_content = <<"c", "a">>

\* C7: a str_replace whose old_str does not occur in the current document
\* gets the document back unchanged with the failure flag; the orchestrator
\* writes nothing to the page and hands the model an error tool result.
C7_AbsentTargetLeavesDocument ==
    [][\A r \in Runs :
          (/\ IsOrchestrator(r) /\ run[r].pc = "tool_call" /\ Executes(r)
           /\ Cur(r).name = "str_replace"
           /\ Positions(run[r].current_html, Cur(r).old_str) = {}) =>
              /\ execute_str_replace(run[r].current_html, Cur(r).old_str, Cur(r).new_str)
                     = <<run[r].current_html, FALSE>>
              /\ page' = page
              /\ obs'[r].doc_writes = obs[r].doc_writes
              /\ run'[r].current_html = run[r].current_html
              /\ Last(run'[r].tool_results)
                     = [tool_call_id |-> run[r].tc, result |-> NotFoundText]
              /\ ~Last(run'[r].changes_log).success
      ]_vars

\* "bb" was looked for in "aba": the page is as loaded and the model was told
C7_Witness ==
    /\ IsOrchestrator("r1")
    /\ run["r1"].loaded_html = DocPlain /\ page.html_content = DocPlain
    /\ run["r1"].tool_calls # <<>> /\ run["r1"].tool_calls[1] = PatchBB
    /\ run["r1"].tool_results # <<>>
    /\ run["r1"].tool_results[1].result = NotFoundText
    /\ run["r1"].changes_log = <<[tool |-> "str_replace", old_str_preview |-> <<"b", "b">>,
                                  success |-> FALSE]>>

\* C9: when json.loads fails on the planner's output, _parse_plan returns
\* the default plan (surgical_edit, simple, needs_clarification false, no
\* changes) without raising; the request goes into the tool loop, and unless
\* a collaborator raises it ends completed, not in error.
C9_UnparseablePlanFallsBack ==
    \A r \in Runs :
        (IsOrchestrator(r) /\ obs[r].plan_fallback) =>
            /\ IsObject(run[r].plan)
            /\ PlanGet(run[r].plan, "decision", None)
                   = IF is_boilerplate(run[r].loaded_html) THEN "full_rewrite"
                     ELSE "surgical_edit"
            /\ PlanGet(run[r].plan, "complexity", None) = "simple"
            /\ PlanGet(run[r].plan, "needs_clarification", None) = FALSE
            /\ PlanGet(run[r].plan, "changes", None) = <<>>
            /\ run[r].path # "shortcircuit"
            /\ run[r].path = "except" => obs[r].raised
            /\ (run[r].pc = "done" /\ ~obs[r].raised) =>
                   /\ msg_status[r] = "completed"
                   /\ \A i \in HistoryRows(r) : edit_history[i].success

\* the planner answered in prose about a document that is not blank; the
\* request went through the loop and ended completed as a surgical edit
C9_Witness ==
    /\ obs["r1"].plan_fallback /\ ~obs["r1"].raised
    /\ run["r1"].loaded_html = DocPlain
    /\ run["r1"].pc = "done"
    /\ msg_status["r1"] = "completed"
    /\ obs["r1"].loop_calls >= 1
    /\ HistoryRows("r1") # {}
    /\ \A i \in HistoryRows("r1") : edit_history[i].decision = "surgical_edit"

\* the planner's call returned in this step and the text held a JSON object
Planned(r) ==
    /\ run[r].pc = "plan_chat"
    /\ obs'[r].model_calls = obs[r].model_calls + 1
    /\ IsObject(run'[r].plan)

\* C10: once the plan is there, the request goes to the clarification
\* short-circuit exactly when the plan asks for clarification, the document
\* is not blank and the plan's confidence is below 0.6; in every other case
\* (confidence 0.6, no confidence field, the default plan) it goes on to the
\* tool loop, and a short-circuited request never calls the model in a loop.
C10_ShortCircuitExactly ==
    [][\A r \in Runs :
          /\ Planned(r) =>
                 LET d == run'[r].plan.d
                     asks == "needs_clarification" \in DOMAIN d /\ d.needs_clarification
                     low == "confidence" \in DOMAIN d /\ d.confidence < 6   \* tenths
                     blank == is_boilerplate(run[r].loaded_html)
                 IN  IF asks /\ ~blank /\ low
                     THEN run'[r].pc = "sc_insert_clarification"
                     ELSE run'[r].pc = "insert_thinking"
          /\ run[r].pc = "insert_thinking" => run'[r].pc \in {"plan_search", "exc_status"}
          /\ run[r].pc = "plan_search" => run'[r].pc \in {"loop_head", "exc_status"}
          /\ run[r].pc = "sc_insert_clarification" =>
                 run'[r].pc \in {"sc_status", "exc_status"}
          /\ run[r].path = "shortcircuit" => obs'[r].loop_calls = 0
      ]_vars

\* a plan that asks for clarification with confidence exactly 0.6, on a
\* document that is not blank: the loop was entered, nothing was asked
C10_Witness ==
    /\ IsObject(run["r1"].plan)
    /\ PlanGet(run["r1"].plan, "needs_clarification", FALSE)
    /\ PlanGet(run["r1"].plan, "confidence", 0) = ConfidenceThreshold
    /\ ~run["r1"].is_new_page
    /\ run["r1"].loaded_html = DocPlain
    /\ obs["r1"].loop_calls >= 1
    /\ ThreadsOf("r1") = {}

VersionsOf(r) == {i \in DOMAIN page_versions : page_versions[i].by = r}

\* C11: a request that takes the clarification short-circuit makes no
\* tool-loop model call and writes neither the document nor a version
\* snapshot; when it has returned it has created exactly one clarification
\* thread, unresolved, inserted the question as its one reply (a
\* clarification reply), and recorded one edit-history row whose decision is
\* "clarification".
C11_ShortCircuitEffects ==
    \A r \in Runs :
        run[r].path = "shortcircuit" =>
            /\ obs[r].loop_calls = 0
            /\ obs[r].doc_writes = 0
            /\ page.html_content = run[r].loaded_html
            /\ VersionsOf(r) = {}
            /\ run[r].pc = "done" =>
                   /\ Cardinality(ThreadsOf(r)) = 1
                   /\ \A i \in ThreadsOf(r) :
                          /\ ~clarification_threads[i].resolved
                          /\ clarification_threads[i].question = run[r].question
                   /\ Cardinality({i \in DOMAIN replies : replies[i].by = r}) = 1
                   /\ \A i \in DOMAIN replies :
                          replies[i].by = r =>
                              /\ replies[i].message_type = "clarification"
                              /\ replies[i].content = run[r].question
                   /\ Cardinality(HistoryRows(r)) = 1
                   /\ \A i \in HistoryRows(r) :
                          /\ edit_history[i].decision = "clarification"
                          /\ edit_history[i].clarification_asked

\* a short-circuited request has returned, on a page that already had version
\* snapshots, and the planner's own question is the reply
C11_Witness ==
    /\ run["r1"].path = "shortcircuit" /\ run["r1"].pc = "done"
    /\ run["r1"].question = "which one?"
    /\ page_versions = EarlierVersions
    /\ Cardinality(ThreadsOf("r1")) = 1
    /\ Cardinality(HistoryRows("r1")) = 1

\* the user message a request was dispatched with
RawPrompt(r) == [text |-> IF r = "r1" THEN "p1" ELSE "p2"]

\* lines 91-95: the prompt rebuilt around the thread the request fetched
Reconstructed(r) ==
    IF run[r].pending_clarification = 0 THEN RawPrompt(r)
    ELSE [question |-> clarification_threads[run[r].pending_clarification].question,
          answer |-> RawPrompt(r), instruction |-> "proceed"]

\* C12: a request that starts while its page has an unresolved clarification
\* thread fetches that thread and resolves it with the raw user message as
\* the answer; the planner call and the first tool-loop call are then given
\* the reconstructed prompt (the question, the answer, the closing
\* instruction) as the user message, not the raw message.
C12_PendingThreadRewritesPrompt ==
    [][\A r \in Runs :
         /\ (At(r, "pending_clarification") /\ Unresolved # {}
                                            /\ run'[r].pc # "pending_clarification"
                                            /\ run'[r].path # "except") =>
                /\ run'[r].pc = "resolve_clarification"
                /\ run'[r].pending_clarification \in Unresolved
         /\ (At(r, "resolve_clarification") /\ run'[r].pc = "plan_chat") =>
                LET i == run[r].pending_clarification
                IN  /\ ~clarification_threads[i].resolved
                    /\ clarification_threads'[i].resolved
                    /\ clarification_threads'[i].answer = RawPrompt(r)
         /\ (At(r, "plan_chat") /\ obs'[r].model_calls = obs[r].model_calls + 1) =>
                /\ run'[r].planning_prompt = Reconstructed(r)
                /\ run[r].pending_clarification # 0 =>
                       run'[r].planning_prompt # RawPrompt(r)
         /\ (At(r, "loop_chat") /\ obs[r].loop_calls = 0 /\ obs'[r].loop_calls = 1) =>
                /\ Len(run[r].messages.new) = 2
                /\ run[r].messages.new[2] = [role |-> "user", content |-> Reconstructed(r)]
    ]_vars

\* the open question of the earlier message was answered by this request,
\* which planned and then called the tool loop with the rebuilt prompt
C12_Witness ==
    /\ run["r1"].pending_clarification = 1
    /\ clarification_threads[1].resolved
    /\ clarification_threads[1].answer = [text |-> "p1"]
    /\ run["r1"].planning_prompt =
           [question |-> "q0", answer |-> [text |-> "p1"], instruction |-> "proceed"]
    /\ obs["r1"].loop_calls = 1

\* the steps of a request before its planning call
BeforePlanning ==
    {"off", "start", "process_assets", "build_asset_context", "load_page",
     "pending_clarification", "resolve_clarification"}

\* C13: every clarification thread is resolved exactly once, by the next
\* user message on its page.  For any interleaving of the requests of one
\* page, a thread that is resolved is never written again (no second request
\* resolves it and overwrites its answer), and a thread that was open when
\* the requests were dispatched is resolved once one of them has gone on to
\* planning.
C13_ResolvedExactlyOnce ==
    [][\A i \in DOMAIN clarification_threads :
         /\ clarification_threads[i].resolved =>
                clarification_threads'[i] = clarification_threads[i]
         /\ (/\ clarification_threads[i].message_id = "m0"
             /\ \E r \in Runs : run'[r].pc \notin BeforePlanning) =>
                clarification_threads'[i].resolved
    ]_vars

RepliesOf(r) == {i \in DOMAIN replies : replies[i].by = r}

\* C14: once an exception has been raised inside the try block of
\* run_orchestrator, the request writes the document and the version
\* snapshots no more; and when the except clause has run to its end the
\* status is error, the last reply of the request is the generic apology (a
\* chat reply), and the request has exactly one edit-history row, with
\* success false.
C14_ExceptionOutcome ==
    [][\A r \in Runs :
         IsOrchestrator(r) =>
             /\ (run[r].path = "except" /\ run'[r] # run[r]) =>
                    /\ page' = page
                    /\ page_versions' = page_versions
             /\ (run'[r].path = "except" /\ run'[r].pc = "done") =>
                    /\ msg_status'[r] = "error"
                    /\ Last(obs'[r].status_log) = "error"
                    /\ RepliesOf(r)' # {}
                    /\ LET i == CHOOSE j \in RepliesOf(r)' : \A k \in RepliesOf(r)' : k <= j
                       IN  /\ replies'[i].content = "Something went wrong. Please try again."
                           /\ replies'[i].message_type = "chat"
                    /\ Cardinality(HistoryRows(r)') = 1
                    /\ \A i \in HistoryRows(r)' :
                           /\ ~edit_history'[i].success
                           /\ edit_history'[i].decision = "unknown"
    ]_vars

\* a write_full_file had already written the document and its snapshot when
\* the status update raised: the except clause ran to its end and the
\* document written before the exception is still there
C14_Witness ==
    /\ run["r1"].path = "except" /\ run["r1"].pc = "done"
    /\ obs["r1"].raised
    /\ page.html_content = NewHtml
    /\ VersionsOf("r1") # {}
    /\ msg_status["r1"] = "error"
    /\ \E i \in HistoryRows("r1") : ~edit_history[i].success

\* the tool call the request is about to run cannot be carried out
CallFails(r) ==
    /\ IsOrchestrator(r) /\ At(r, "tool_call")
    /\ \/ Cur(r).name = "write_full_file" /\ Cur(r).html = <<>>
       \/ Cur(r).name = "str_replace" /\ ~Contains(run[r].current_html, Cur(r).old_str)

FailureText(r) == IF Cur(r).name = "write_full_file" THEN EmptyHtmlText ELSE NotFoundText

\* C15: a write_full_file call with empty html and a str_replace call whose
\* old_str is not in the document never take the request to the error
\* outcome.  Running such a call adds a textual error result for it to the
\* results of the turn, writes nothing to any table, and goes on to the next
\* call of the turn or to the end of the turn; at the end of the turn every
\* result of the turn is appended to the running message sequence as a tool
\* message and the loop goes back to its head.
C15_ToolFailuresAreNotErrors ==
    [][\A r \in Runs :
         /\ (CallFails(r) /\ Executes(r)) =>
                /\ UNCHANGED dbvars
                /\ run'[r].path = run[r].path /\ run'[r].path # "except"
                /\ run'[r].current_html = run[r].current_html
                /\ run'[r].tool_results =
                       Append(run[r].tool_results,
                              [tool_call_id |-> run[r].tc, result |-> FailureText(r)])
                /\ run'[r].pc = IF run[r].tc < Len(run[r].tool_calls) THEN "tool_call"
                                ELSE "append_messages"
         /\ (IsOrchestrator(r) /\ At(r, "append_messages") /\ run'[r].pc # "append_messages") =>
                /\ run'[r].pc = "loop_head"
                /\ Len(run'[r].messages.new) = 1 + Len(run[r].tool_results)
                /\ \A i \in DOMAIN run[r].tool_results :
                       run'[r].messages.new[i + 1] =
                           [role |-> "tool",
                            tool_call_id |-> run[r].tool_results[i].tool_call_id,
                            content |-> run[r].tool_results[i].result]
    ]_vars

\* one turn held an empty write_full_file and a str_replace of an absent
\* text: both error texts are in the message sequence, the document is the
\* loaded one and the loop is back at its head
C15_Witness ==
    /\ run["r1"].pc = "loop_head" /\ run["r1"].path = "none"
    /\ IsOrchestrator("r1")
    /\ \E i, j \in DOMAIN run["r1"].messages.new :
           /\ run["r1"].messages.new[i].role = "tool"
           /\ run["r1"].messages.new[i].content = EmptyHtmlText
           /\ run["r1"].messages.new[j].role = "tool"
           /\ run["r1"].messages.new[j].content = NotFoundText
    /\ page.html_content = run["r1"].loaded_html
    /\ page_versions = <<>>

\* C16: the page's summary and component map are written only inside the
\* execution of a full rewrite (a write_full_file call with non-empty html
\* whose document write has been made), and always as a pair taken from
\* that one call; no other step of either agent changes either field.
C16_SummaryAndMapOnlyWithRewrite ==
    [][(page'.html_summary # page.html_summary \/ page'.component_map # page.component_map) =>
          \E r \in Runs :
              /\ IsOrchestrator(r) /\ At(r, "wff_update_summary")
              /\ run[r].path = "write_full_file"
              /\ Cur(r).name = "write_full_file" /\ Cur(r).html # <<>>
              /\ page.html_content = Cur(r).html
              /\ page'.html_content = page.html_content
              /\ page'.html_summary = Cur(r).html_summary
              /\ page'.component_map = Cur(r).component_map
    ]_vars

\* a full rewrite that carried a summary has stored the document, the
\* summary and the component map
C16_Witness ==
    /\ page = [html_content |-> NewHtml, html_summary |-> "about", component_map |-> <<"c1">>]
    /\ run["r1"].path = "write_full_file"
    /\ run["r1"].pc = "wff_snapshot"

\* C17: version numbers are assigned in increasing order per page: for any
\* interleaving of the requests of one page, two snapshotting at once
\* included, no two snapshots share a number and a snapshot inserted later
\* never has a number less than or equal to that of one inserted earlier.
C17_VersionNumbersIncrease ==
    \A i, j \in DOMAIN page_versions :
        i < j => page_versions[i].version_num < page_versions[j].version_num

\* the assistant rows of a request with the given message_type
RepliesOfType(r, message_type) ==
    {i \in RepliesOf(r) : replies[i].message_type = message_type}

\* a request has returned from the write_full_file branch, on a page that was
\* the placeholder and had no version snapshot when the request came in
BlankRewriteDone(r) ==
    /\ IsOrchestrator(r)
    /\ run[r].pc = "done" /\ run[r].path = "write_full_file"
    /\ is_boilerplate(run[r].loaded_html)
    /\ \A i \in DOMAIN page_versions : page_versions[i].by = r

\* what C18 says of the plan, the document, the snapshot and the history row
BlankRewriteOutcome(r) ==
    /\ PlanGet(run[r].plan, "decision", None) = "full_rewrite"
    /\ Cur(r).name = "write_full_file" /\ Cur(r).html # <<>>
    /\ page.html_content = Cur(r).html
    /\ page.html_content # run[r].loaded_html
    /\ page_versions = <<[by |-> r, html_snapshot |-> Cur(r).html, version_num |-> 1,
                          trigger_type |-> "agent_complete"]>>
    /\ Cardinality(HistoryRows(r)) = 1
    /\ \A i \in HistoryRows(r) :
           edit_history[i].decision = "full_rewrite" /\ edit_history[i].success

PatchThenFinishDone(r) ==
    /\ IsOrchestrator(r)
    /\ run[r].pc = "done" /\ run[r].path = "finish"
    /\ ~is_boilerplate(run[r].loaded_html)
    /\ Len(obs[r].applied) = 1

\* C19: for a request on a non-blank document whose loop executes one
\* successful str_replace and then finish, the persisted document is the
\* loaded one with the first occurrence of old_str replaced by new_str, the
\* request's edit-history row has decision surgical_edit, success true and
\* the patch logged as successful, and the snapshot the request took holds
\* that document under a version number strictly greater than the number of
\* every other snapshot of the page.
C19_PatchThenFinish ==
    \A r \in Runs :
        PatchThenFinishDone(r) =>
            LET h == run[r].loaded_html
                old == obs[r].applied[1][1]
                new == obs[r].applied[1][2]
                first == CHOOSE p \in Positions(h, old) : \A q \in Positions(h, old) : p <= q
            IN  /\ Positions(h, old) # {}
                /\ page.html_content = Splice(h, first, old, new)
                /\ Cardinality(HistoryRows(r)) = 1
                /\ \A i \in HistoryRows(r) :
                       /\ edit_history[i].decision = "surgical_edit"
                       /\ edit_history[i].success
                       /\ \E k \in DOMAIN edit_history[i].changes_json :
                              edit_history[i].changes_json[k] =
                                  [tool |-> "str_replace",
                                   old_str_preview |-> Prefix(old, PreviewLen),
                                   success |-> TRUE]
                       /\ Cardinality({k \in DOMAIN edit_history[i].changes_json :
                                          edit_history[i].changes_json[k].success}) = 1
                /\ Cardinality(VersionsOf(r)) = 1
                /\ \A i \in VersionsOf(r) :
                       /\ page_versions[i].html_snapshot = page.html_content
                       /\ \A j \in DOMAIN page_versions \ {i} :
                              page_versions[j].version_num < page_versions[i].version_num

\* on a page with versions 1 and 2 the first of the two "a" was replaced, and
\* the snapshot of the result is version 3
C19_Witness ==
    /\ PatchThenFinishDone("r1")
    /\ run["r1"].loaded_html = DocPlain
    /\ page.html_content = <<"b", "b", "a">>
    /\ Len(page_versions) = 3
    /\ page_versions[3].version_num = 3
    /\ page_versions[3].by = "r1"

\* C20: a run_orchestrator request never has two edit-history rows; when it
\* has returned, whatever its outcome (completed, clarification pending or
\* error), it has exactly one, inserted by its last step; and every step
\* leaves the rows already in the table as they are, in their order.
C20_OneHistoryRowPerRequest ==
    [][/\ Len(edit_history') >= Len(edit_history)
       /\ SubSeq(edit_history', 1, Len(edit_history)) = edit_history
       /\ \A r \in Runs :
              IsOrchestrator(r) =>
                  /\ Cardinality(HistoryRows(r)') <= 1
                  /\ run'[r].pc = "done" => Cardinality(HistoryRows(r)') = 1
                  /\ (HistoryRows(r)' # HistoryRows(r)) =>
                         /\ run'[r].pc = "done"
                         /\ edit_history' = Append(edit_history, Last(edit_history'))
    ]_vars

\* the status was already completed when the reply of the exit sequence
\* raised: the request ended in error with one row, that of the except clause
C20_Witness ==
    /\ IsOrchestrator("r1")
    /\ run["r1"].pc = "done" /\ run["r1"].path = "except"
    /\ obs["r1"].status_log = <<"processing", "completed", "error">>
    /\ Cardinality(HistoryRows("r1")) = 1
    /\ \A i \in HistoryRows("r1") : ~edit_history[i].success

\* the tool and success flag of each entry of a change list
Flags(changes) == [k \in DOMAIN changes |-> [tool |-> changes[k].tool,
                                             success |-> changes[k].success]]

\* C21: on every terminal path the change list of a request's edit-history
\* row is, in execution order, the list of the full-write and patch actions
\* the request executed, one entry per action with its success flag (a patch
\* that failed is listed with success false).  Stated for the requests none
\* of whose calls raised.
C21_ChangeListIsWhatRan ==
    \A r \in Runs :
        (IsOrchestrator(r) /\ ~obs[r].raised) =>
            \A i \in HistoryRows(r) :
                Flags(edit_history[i].changes_json) = obs[r].actions

\* the ways a request ends completed with its work done: a full rewrite, a
\* finish call, a turn without tool calls or the iteration ceiling
CompletedPaths == {"write_full_file", "finish", "exit"}

\* C22: every terminal document state is snapshotted.  A request that has
\* ended completed through write_full_file, finish, a turn without tool
\* calls or the iteration ceiling has created exactly one version snapshot;
\* and a request that has ended, in whatever way, after its patches changed
\* the persisted document has created a snapshot that holds the document as
\* it stands.  Stated for the requests none of whose calls raised.
C22_TerminalStateSnapshotted ==
    \A r \in Runs :
        (IsOrchestrator(r) /\ run[r].pc = "done" /\ ~obs[r].raised) =>
            /\ run[r].path \in CompletedPaths => Cardinality(VersionsOf(r)) = 1
            /\ obs[r].applied # <<>> =>
                   \E i \in VersionsOf(r) :
                       page_versions[i].html_snapshot = page.html_content

\* the request left the loop because a response carried no tool call
NoToolExit(r) ==
    /\ run[r].path = "exit" /\ run[r].tool_calls = <<>>
    /\ obs[r].loop_calls >= 1

\* the reply such a request gives: the response text, or the fixed default
TextOrDefault(r) ==
    IF run[r].content # "" THEN run[r].content
    ELSE IF IsEdit(r) THEN "Edits complete." ELSE "Changes applied."

\* C23: when a tool-loop response carries no tool call the loop ends in
\* that iteration; the request makes no further model call; and when it has
\* returned, none of its later calls having raised, its status is completed
\* (written once, after processing), its reply is the response text, or the
\* fixed default when the text is empty, and run_orchestrator's edit-history
\* row has success true.
C23_NoToolCallEndsLoop ==
    [][\A r \in Runs :
         /\ (/\ run[r].pc \in {"loop_chat", "ea_chat"}
             /\ obs'[r].loop_calls = obs[r].loop_calls + 1
             /\ run'[r].tool_calls = <<>>) =>
                /\ NoToolExit(r)'
                /\ run'[r].pc \in {"exit_snapshot", "ea_exit_snapshot"}
                /\ run'[r].final_summary = TextOrDefault(r)'
         /\ NoToolExit(r) =>
                /\ obs'[r].model_calls = obs[r].model_calls
                /\ run'[r].iteration = run[r].iteration
         /\ (NoToolExit(r)' /\ run'[r].pc = "done") =>
                /\ msg_status'[r] = "completed"
                /\ obs'[r].status_log = <<"processing", "completed">>
                /\ RepliesOfType(r, "chat")' # {}
                /\ \A i \in RepliesOfType(r, "chat")' :
                       replies'[i].content = TextOrDefault(r)'
                /\ IsOrchestrator(r) =>
                       /\ Cardinality(HistoryRows(r)') = 1
                       /\ \A i \in HistoryRows(r)' : edit_history'[i].success
    ]_vars

\* the third response of a request that had patched the document was text
\* only, and that text is the reply of the completed request
C23_Witness ==
    /\ NoToolExit("r1") /\ run["r1"].pc = "done"
    /\ IsOrchestrator("r1")
    /\ obs["r1"].loop_calls = 3
    /\ obs["r1"].applied # <<>>
    /\ run["r1"].content = "all set"
    /\ Last(replies).content = "all set"
    /\ msg_status["r1"] = "completed"

\* C24: nothing serializes two requests on one page.  Each works on the
\* copy of the document it loaded at line 79: only its own tool calls change
\* that copy afterwards, and a patch that succeeds on the copy is reported
\* as successful and written over the persisted document whatever another
\* request has written there in the meantime.
C24_PatchesApplyToOwnCopy ==
    [][\A r \in Runs :
         /\ (IsOrchestrator(r) /\ run'[r].current_html # run[r].current_html) =>
                \/ At(r, "load_page") /\ run'[r].current_html = page.html_content
                \/ At(r, "tool_call") /\ Executes(r)
         /\ (/\ IsOrchestrator(r) /\ At(r, "tool_call")
             /\ Cur(r).name = "str_replace" /\ Executes(r)
             /\ Positions(run[r].current_html, Cur(r).old_str) # {}) =>
                LET h == run[r].current_html
                    old == Cur(r).old_str
                    first == CHOOSE p \in Positions(h, old) :
                                 \A q \in Positions(h, old) : p <= q
                IN  /\ page'.html_content = Splice(h, first, old, Cur(r).new_str)
                    /\ run'[r].current_html = page'.html_content
                    /\ Last(run'[r].tool_results).result = "replaced successfully"
    ]_vars

\* a lost update: both requests loaded "aba", each was told its patch was
\* applied, both have ended completed, and the persisted document holds the
\* patch of r2 only
C24_Witness ==
    /\ \A r \in Runs : /\ run[r].pc = "done" /\ msg_status[r] = "completed"
                        /\ run[r].loaded_html = DocPlain
    /\ obs["r1"].applied = << <<PatchA.old_str, PatchA.new_str>> >>
    /\ obs["r2"].applied = << <<PatchB.old_str, PatchB.new_str>> >>
    /\ \A r \in Runs : \A i \in HistoryRows(r) :
           /\ edit_history[i].changes_json # <<>>
           /\ edit_history[i].changes_json[1].success
    /\ page.html_content = <<"a", "c", "a">>
    /\ ~Contains(page.html_content, PatchA.new_str)

\* the failures the pipeline of one asset can meet
PipelineFailures ==
    {"download", "extraction", "extraction_error", "vision", "embedded_upload"}

\* process_pending_assets returns to run_orchestrator
AssetsReturn(r) == At(r, "gather") /\ run'[r].pc # "gather"

ReturnsNormally(r) ==
    /\ run'[r].pc = "build_asset_context"
    /\ run'[r].path = run[r].path
    /\ obs'[r].raised = obs[r].raised
    /\ msg_status'[r] = "processing"

\* a step of the pipeline touches the row of the asset whose coroutine took
\* the step, or the row of that asset's embedded image, and no other row
OnlyOwnRows(r) ==
    \A i \in DOMAIN page_assets' :
        (i \notin DOMAIN page_assets \/ page_assets'[i] # page_assets[i]) =>
            \E k \in DOMAIN run[r].asset_tasks :
                /\ run'[r].asset_tasks[k] # run[r].asset_tasks[k]
                /\ \A j \in DOMAIN run[r].asset_tasks \ {k} :
                       run'[r].asset_tasks[j] = run[r].asset_tasks[j]
                /\ \/ i = k
                   \/ page_assets'[i].parent_asset_id = k

C26_AssetsSettledBeforeContext ==
    \A r \in Runs :
        (IsOrchestrator(r) /\ At(r, "build_asset_context")) =>
            \A i \in 1..MaxAssets :
                i \in DOMAIN page_assets =>
                    page_assets[i].processing_status \in {"ready", "failed"}

Registered(r) == run[r].model_id \in GROQ_MODELS \cup CLAUDE_MODELS

ModelCall(r) == IsOrchestrator(r) /\ (At(r, "plan_chat") \/ At(r, "loop_chat"))

\* C27: a model call with an id in neither catalog raises without calling a
\* backend; an id in a catalog is served by the backend of that catalog and
\* by no other.  A request with an unregistered id never writes the
\* document or a snapshot, and ends with status error, the apology reply
\* and an edit_history row with success false.
C27_UnknownModelFails ==
    [][\A r \in Runs :
         /\ ModelCall(r) /\ run'[r].pc # run[r].pc =>
                IF Registered(r)
                THEN /\ obs'[r].model_calls = obs[r].model_calls + 1
                     /\ obs'[r].backends =
                            IF run[r].model_id \in GROQ_MODELS THEN {"groq_client"}
                            ELSE {"claude_client"}
                ELSE /\ obs'[r].model_calls = obs[r].model_calls
                     /\ obs'[r].backends = {}
                     /\ run'[r].pc = "exc_status" /\ run'[r].path = "except"
         /\ (IsOrchestrator(r) /\ run[r].pc # "off" /\ ~Registered(r)) =>
                /\ page' = page
                /\ page_versions' = page_versions
                /\ obs'[r].doc_writes = 0
                /\ run'[r].pc = "done" =>
                       /\ msg_status'[r] = "error"
                       /\ \E i \in RepliesOf(r) :
                              replies'[i].content = "Something went wrong. Please try again."
                       /\ \A i \in HistoryRows(r)' : ~edit_history'[i].success
    ]_vars

\* the request with the unregistered id has ended: status error, no model
\* call, the document as it was
C27_Witness ==
    /\ run["r1"].model_id = "openai/gpt-4o"
    /\ run["r1"].pc = "done" /\ msg_status["r1"] = "error"
    /\ obs["r1"].model_calls = 0 /\ obs["r1"].backends = {}
    /\ page.html_content = DocPlain
    /\ \E i \in HistoryRows("r1") : ~edit_history[i].success

\* C28: the endpoint answers 404 when the page does not exist, 500 when
\* anything else raises while it dispatches, and otherwise starts the agent
\* run as a background task and answers "accepted" while the run has not
\* reached a terminal status.
C28_EndpointResponses ==
    [][\A r \in Runs :
         (At(r, "agent_run") /\ run'[r].pc # "agent_run") =>
             LET response == run'[r].http
             IN  /\ run[r].page_id \notin {PageId} => response.status_code = 404
                 /\ response.status_code \in {404, 500} =>
                        /\ run'[r].pc = "responded"
                        /\ msg_status'[r] = "pending"
                 /\ response.status_code \notin {404, 500} =>
                        /\ response.status = "accepted"
                        /\ run'[r].pc = "start"
                        /\ msg_status'[r] \notin Terminal
    ]_vars

\* the rows an asset context names
FilesIn(asset_context) ==
    {asset_context[n].file : n \in DOMAIN asset_context} \ {0}

ReadyRows == {i \in DOMAIN page_assets : page_assets[i].processing_status = "ready"}

\* C29: the asset context names ready assets only (every ready image,
\* document and extracted image, and nothing else) and is empty when the
\* page has no ready asset; and a request whose asset context is empty
\* sends the tool loop the prompt built from the document, its summary, its
\* component map and the two histories, followed by the search results when
\* there are any, with nothing added in between.
C29_EmptyAssetContextLeavesPrompt ==
    [][\A r \in Runs :
         /\ (At(r, "build_asset_context") /\ run'[r].pc = "load_page") =>
                LET asset_context == run'[r].asset_context
                IN  /\ FilesIn(asset_context) \subseteq ReadyRows
                    /\ \A i \in ReadyRows :
                           page_assets[i].asset_type \in {"image", "document", "extracted_image"}
                               => i \in FilesIn(asset_context)
                    /\ asset_context = <<>> <=> ReadyRows = {}
         /\ (IsOrchestrator(r) /\ At(r, "plan_search") /\ run'[r].pc = "loop_head"
                /\ run[r].asset_context = <<>>) =>
                LET sent == run'[r].messages.new[1].content
                    base == build_orchestrator_system_prompt(run[r].current_html,
                                run[r].html_summary, run[r].component_map,
                                run[r].edit_history, run[r].chat_history)
                IN  /\ run'[r].messages.new[1].role = "system"
                    /\ IF PlanWantsSearch(r)
                       THEN sent = base \o <<Separator,
                                [text |-> format_search_results(SearchHits), file |-> 0]>>
                       ELSE sent = base
    ]_vars

\* the pipeline ran and left both uploads failed: the asset context is
\* empty and the prompt handed to the tool loop is the base prompt alone
C29_Witness ==
    /\ run["r1"].pc = "loop_head" /\ run["r1"].owner_id = "u1"
    /\ \A i \in 1..MaxAssets : page_assets[i].processing_status = "failed"
    /\ run["r1"].asset_context = <<>>
    /\ Len(run["r1"].messages.new[1].content) = 1
    /\ run["r1"].messages.new[1].content[1].current_html = DocPlain

\* C30: every run_orchestrator invocation ends, and ends with its outcome
\* recorded: once the invocation has started, the status of its message
\* eventually is completed or error, whatever the backend returns and
\* whichever calls raise.
C30_ReachesTerminalOutcome ==
    \A r \in Runs :
        (IsOrchestrator(r) /\ run[r].pc = "start") ~> (msg_status[r] \in Terminal)

\* how the request of a row ended: the branch that inserted the row
DecisionOf(path, plan) ==
    CASE path = "write_full_file" -> "full_rewrite"
      [] path = "finish" -> "surgical_edit"
      [] path \in {"shortcircuit", "ask_clarification"} -> "clarification"
      [] path = "exit" -> PlanGet(plan, "decision", "surgical_edit")
      [] path = "except" -> "unknown"
      [] OTHER -> "none"

\* C31: the decision of a request's edit-history row follows from how the
\* request ended, not from the plan: full_rewrite after write_full_file,
\* surgical_edit after finish, clarification after either clarification,
\* the plan's decision (surgical_edit when the plan has none) after a turn
\* without tool calls or the iteration ceiling, unknown on the fatal path.
C31_DecisionFollowsEnding ==
    \A r \in Runs : \A i \in HistoryRows(r) :
        /\ run[r].pc = "done"
        /\ edit_history[i].plan_json = run[r].plan
        /\ edit_history[i].decision = DecisionOf(run[r].path, run[r].plan)

\* the plan has no decision and the backend's first turn calls no tool: the
\* row of the exit sequence says surgical_edit
C31_Witness ==
    /\ run["r1"].path = "exit" /\ run["r1"].pc = "done"
    /\ IsObject(run["r1"].plan) /\ "decision" \notin DOMAIN run["r1"].plan.d
    /\ \E i \in HistoryRows("r1") : edit_history[i].decision = "surgical_edit"

\* the request is on a path that ends completed with its work done
Completing(r) == IsOrchestrator(r) /\ run[r].path \in CompletedPaths

\* the final document and a snapshot of it, taken by the request, are stored
FinalDocumentStored(r) ==
    /\ page.html_content = run[r].current_html
    /\ page_versions # <<>>
    /\ Last(page_versions).by = r
    /\ Last(page_versions).html_snapshot = page.html_content

\* C32: on the paths that end completed (write_full_file, finish, a turn
\* without tool calls, the iteration ceiling) the status becomes completed
\* only when the final document and the request's snapshot of it are stored,
\* and neither changes afterwards; the request's chat reply and its
\* edit-history row are inserted only after the status is completed, so the
\* status is completed for a while with neither of them in place.
C32_CompletedBetweenSnapshotAndReply ==
    [][\A r \in Runs :
          Completing(r) =>
              /\ (msg_status'[r] = "completed" /\ msg_status[r] # "completed") =>
                     /\ FinalDocumentStored(r)
                     /\ RepliesOfType(r, "chat") = {}
                     /\ HistoryRows(r) = {}
              /\ msg_status[r] = "completed" =>
                     /\ page' = page
                     /\ page_versions' = page_versions
              /\ (RepliesOfType(r, "chat")' # RepliesOfType(r, "chat")) =>
                     msg_status[r] = "completed"
              /\ (HistoryRows(r)' # HistoryRows(r)) =>
                     /\ msg_status[r] = "completed"
                     /\ RepliesOfType(r, "chat") # {}
    ]_vars

\* a patch ran, finish was called and the status is completed: the patched
\* document and its snapshot are stored, the reply and the row are not yet
C32_Witness ==
    /\ Completing("r1") /\ run["r1"].path = "finish"
    /\ msg_status["r1"] = "completed"
    /\ obs["r1"].applied # <<>>
    /\ FinalDocumentStored("r1")
    /\ RepliesOfType("r1", "chat") = {}
    /\ HistoryRows("r1") = {}

\* C33: with one request in flight on the page, the step that executes a
\* tool call leaves the stored html_content equal to the run's current_html,
\* and the step that inserts the request's version snapshot stores the
\* html_content the page holds at that moment.
C33_StoredDocumentIsLocalCopy ==
    [][\A r \in Runs :
          /\ Executes(r) => page'.html_content = run'[r].current_html
          /\ (VersionsOf(r)' # VersionsOf(r)) =>
                 /\ page' = page
                 /\ Last(page_versions').by = r
                 /\ Last(page_versions').html_snapshot = page.html_content
    ]_vars

\* finish after a patch that changed the document: the snapshot just taken
\* holds the patched document, which is the stored one
C33_Witness ==
    /\ IsOrchestrator("r1") /\ run["r1"].pc = "fin_status"
    /\ obs["r1"].applied # <<>>
    /\ page.html_content # run["r1"].loaded_html
    /\ page.html_content = run["r1"].current_html
    /\ Last(page_versions).by = "r1"
    /\ Last(page_versions).html_snapshot = page.html_content

\* the step appends a turn of the backend and its tool results (lines
\* 329-352; agents.py, lines 277-298)
Appends(r) ==
    /\ run[r].pc \in {"append_messages", "ea_append"}
    /\ run'[r].pc \in {"loop_head", "ea_loop_head"}

\* the appended entries are the assistant turn, listing every tool call of
\* the response, and then one tool-result turn for each call whose name is in
\* names, in call order, and for no other call
AppendedResultsFor(r, names) ==
    LET calls == run[r].tool_calls
        new == run'[r].messages.new
        results == Tail(new)
    IN  /\ new # <<>> /\ new[1].role = "assistant"
        /\ DOMAIN new[1].tool_calls = DOMAIN calls
        /\ \A i \in DOMAIN calls :
               /\ new[1].tool_calls[i].id = i
               /\ new[1].tool_calls[i].function.name = calls[i].name
               /\ calls[i].name = "write_full_file" => calls[i].html = <<>>
        /\ \A j \in DOMAIN results : results[j].role = "tool"
        /\ {results[j].tool_call_id : j \in DOMAIN results} =
               {i \in DOMAIN calls : calls[i].name \in names}
        /\ \A j, k \in DOMAIN results :
               j < k => results[j].tool_call_id < results[k].tool_call_id

\* C34 as stated: in either agent, every appended turn has one tool-result
\* turn for each of its write_full_file, str_replace and web_search calls,
\* in call order after the assistant turn, and none for any other call.
C34_ResultForEachHandledCall ==
    [][\A r \in Runs :
          Appends(r) =>
              AppendedResultsFor(r, {"write_full_file", "str_replace", "web_search"})
    ]_vars

\* C34: every appended turn of run_orchestrator has one tool-result turn
\* for each of its write_full_file (empty html), str_replace and web_search
\* calls, and every appended turn of run_edit_agent one for each of its
\* str_replace calls, in call order after the assistant turn; a call with
\* any other name is listed in the assistant turn and gets no tool result.
C34_ResultForEachCallTheAgentHandles ==
    [][\A r \in Runs :
          Appends(r) =>
              AppendedResultsFor(r, IF IsEdit(r) THEN {"str_replace"}
                                    ELSE {"write_full_file", "str_replace", "web_search"})
    ]_vars

\* run_orchestrator appended a turn of two calls, a name it does not know
\* and a patch: the assistant turn lists both, the one tool result is the
\* patch's
C34_Witness ==
    /\ IsOrchestrator("r1") /\ run["r1"].pc = "loop_head"
    /\ Len(run["r1"].messages.new) = 2
    /\ run["r1"].messages.new[1].role = "assistant"
    /\ Len(run["r1"].messages.new[1].tool_calls) = 2
    /\ run["r1"].messages.new[1].tool_calls[1].function.name = "no_such_tool"
    /\ run["r1"].messages.new[1].tool_calls[2].function.name = "str_replace"
    /\ run["r1"].messages.new[2].role = "tool"
    /\ run["r1"].messages.new[2].tool_call_id = 2

Succeeded(entry) == entry.success

\* the patches a change list reports as applied, by their old_str preview
PatchesListed(changes) ==
    LET done == SelectSeq(changes, Succeeded)
    IN  [k \in DOMAIN done |-> done[k].old_str_preview]

\* the old_str previews of the patches the request applied, in order
PatchesApplied(r) ==
    [k \in DOMAIN obs[r].applied |-> Prefix(obs[r].applied[k][1], PreviewLen)]

\* a tool-loop model call or a web search of the request raised after one
\* of its patches had gone through
RaisedAfterPatches(r) ==
    /\ IsOrchestrator(r)
    /\ obs[r].raised_at \in {"loop_chat", "web_search"}
    /\ obs[r].applied # <<>>

\* C35: when a model call or a web search of the tool loop raises after
\* patches of the same request succeeded, the stored document keeps those
\* patches, the request takes no version snapshot, and once the except
\* clause has run the status is error and the request's one edit-history
\* row has success false and a change list that lists the patches.
C35_PatchesSurviveLaterFailure ==
    \A r \in Runs :
        RaisedAfterPatches(r) =>
            /\ page.html_content = DocNow(r)
            /\ page.html_content # run[r].loaded_html
            /\ VersionsOf(r) = {}
            /\ run[r].pc = "done" =>
                   /\ msg_status[r] = "error"
                   /\ Cardinality(HistoryRows(r)) = 1
                   /\ \A i \in HistoryRows(r) :
                          /\ ~edit_history[i].success
                          /\ Flags(edit_history[i].changes_json) = obs[r].actions
                          /\ PatchesListed(edit_history[i].changes_json) = PatchesApplied(r)

\* a patch turned aba into bba, the web search of the same turn raised and
\* the except clause ran to its end
C35_Witness ==
    /\ RaisedAfterPatches("r1") /\ obs["r1"].raised_at = "web_search"
    /\ run["r1"].pc = "done"
    /\ run["r1"].loaded_html = DocPlain
    /\ page.html_content = <<"b", "b", "a">>
    /\ msg_status["r1"] = "error"
    /\ page_versions = <<>>
    /\ \E i \in HistoryRows("r1") : Len(edit_history[i].changes_json) = 1

\* C36: with the requests of a page run one after another, the page never
\* has two unresolved clarification threads: a request inserts a thread
\* only when no thread is unresolved, having resolved the pending one at
\* line 90, and no request inserts two.
C36_OneOpenThread ==
    [][/\ Cardinality(Unresolved') <= 1
       /\ \A r \in Runs : Cardinality(ThreadsOf(r)') <= 1
       /\ Len(clarification_threads') > Len(clarification_threads) => Unresolved = {}
    ]_vars

\* the first request asked, the second resolved that thread and asked in
\* turn: two threads of the two requests, the later one unresolved
C36_Witness ==
    /\ Ended("r1") /\ Ended("r2")
    /\ \E i \in ThreadsOf("r1") : \E j \in ThreadsOf("r2") :
           /\ clarification_threads[i].resolved
           /\ clarification_threads[i].answer = [text |-> "p2"]
           /\ Unresolved = {j}

\* the request found thread i pending, went past lines 90-95 and ended in
\* error
ResolvedThenFailed(r, i) ==
    /\ i # 0 /\ run[r].pending_clarification = i
    /\ run[r].user_prompt # RawPrompt(r)
    /\ Ended(r) /\ msg_status[r] = "error"

\* the planning call of the request has been made
PlanningCalled(r) == obs[r].model_calls >= 1

\* C37: a thread that is pending when a request starts is resolved by that
\* request before its planning call, with the request's raw message as the
\* answer; when the request then ends in error the thread stays resolved
\* with that answer, and the request after it finds no pending thread and
\* is planned from its own raw message.
C37_FailedRequestConsumesThread ==
    /\ (PlanningCalled("r1") /\ run["r1"].pending_clarification # 0) =>
           clarification_threads[run["r1"].pending_clarification].resolved
    /\ \A i \in DOMAIN clarification_threads :
           ResolvedThenFailed("r1", i) =>
               /\ clarification_threads[i].resolved
               /\ clarification_threads[i].answer = RawPrompt("r1")
               /\ PlanningCalled("r2") =>
                      /\ run["r2"].pending_clarification = 0
                      /\ run["r2"].planning_prompt = RawPrompt("r2")


(***************************************************************************)
(* C38: where a request lets another one run                               *)
(***************************************************************************)
\* a step of a request other than r
OtherStep(r) == \E q \in Runs \ {r} : run'[q] # run[q]

InFlight(r) == run[r].pc \notin {"off", "start", "done", "crashed"}

\* the call r makes next is brave_search
SearchIsNext(r) ==
    \/ run[r].pc = "plan_search" /\ PlanWantsSearch(r)
    \/ run[r].pc = "tool_call" /\ Cur(r).name = "web_search"

BeforeGetPage == {"off", "start", "process_assets", "gather", "build_asset_context", "load_page"}

\* r has read the document, has made no web search and is not making one
ReadWithoutSearch(r) ==
    /\ InFlight(r) /\ run[r].pc \notin BeforeGetPage \cup {"ea_load"}
    /\ IsOrchestrator(r) => run[r].web_searches_used = <<>> /\ ~SearchIsNext(r)

\* C38: in one event loop, another request takes a step while a
\* run_orchestrator request is under way only when that request is at the
\* gather of its pending assets or at a web search with a key configured,
\* and never while a run_edit_agent request is under way; so the stored
\* document stays the one a request holds from the moment it has read it,
\* through its writes, for as long as it makes no web search.
C38_YieldsOnlyAtFanOutOrSearch ==
    /\ [][\A r \in Runs : InFlight(r) /\ OtherStep(r) =>
             /\ IsOrchestrator(r)
             /\ \/ run[r].pc = "gather" /\ run[r].asset_tasks # <<>>
                \/ run[r].BRAVE_SEARCH_API_KEY /\ SearchIsNext(r)]_vars
    /\ [](\A r \in Runs : ReadWithoutSearch(r) => page.html_content = run[r].current_html)

\* a request waits for its web search while the other one, begun after it,
\* has come as far as its model call
C38_Witness ==
    \E r \in Runs : \E q \in Runs \ {r} :
        /\ IsOrchestrator(r) /\ run[r].BRAVE_SEARCH_API_KEY
        /\ run[r].pc = "tool_call" /\ Cur(r).name = "web_search"
        /\ run[q].pc \in {"loop_chat", "ea_chat"}


(***************************************************************************)
(* C39: str_replace with an empty or missing old_str                       *)
(***************************************************************************)
\* the tool call as the backend sent it
RawCall(r) == run[r].tool_calls[run[r].tc]

\* r is about to handle a str_replace whose old_str is empty or left out
EmptyOldStr(r) ==
    /\ IsOrchestrator(r) /\ run[r].pc = "tool_call"
    /\ RawCall(r).name = "str_replace"
    /\ "old_str" \in DOMAIN RawCall(r) => RawCall(r).old_str = <<>>

SentNewStr(r) == IF "new_str" \in DOMAIN RawCall(r) THEN RawCall(r).new_str ELSE <<>>

\* C39: a str_replace whose old_str is empty or missing succeeds on every
\* document, the empty one included: the stored document and the working
\* copy become new_str followed by the whole document as it was, the change
\* log records a success and the model is told "replaced successfully",
\* never that old_str was not found.
C39_EmptyOldStrInsertsAtStart ==
    [][\A r \in Runs : EmptyOldStr(r) /\ run'[r] # run[r] =>
          /\ page'.html_content = SentNewStr(r) \o run[r].current_html
          /\ run'[r].current_html = page'.html_content
          /\ Len(run'[r].changes_log) = Len(run[r].changes_log) + 1
          /\ run'[r].changes_log[Len(run'[r].changes_log)].success
          /\ run'[r].tool_results # <<>>
          /\ run'[r].tool_results[Len(run'[r].tool_results)].result = "replaced successfully"]_vars

\* the empty document after a str_replace without old_str: it holds new_str
C39_Witness ==
    /\ run["r1"].loaded_html = <<>>
    /\ run["r1"].tool_calls = <<PatchNoOld>>
    /\ run["r1"].pc = "append_messages"
    /\ page.html_content = <<"a">>
    /\ run["r1"].changes_log # <<>> /\ run["r1"].changes_log[1].success


(***************************************************************************)
(* C40: write_full_file without a summary                                  *)
(***************************************************************************)
\* the tool call r is at (or ended with) is a write_full_file that carries a
\* document and no html_summary, or an empty one
WritesWithoutSummary(r) ==
    /\ IsOrchestrator(r) /\ run[r].tc \in DOMAIN run[r].tool_calls
    /\ RawCall(r).name = "write_full_file"
    /\ "html" \in DOMAIN RawCall(r) /\ RawCall(r).html # <<>>
    /\ "html_summary" \in DOMAIN RawCall(r) => RawCall(r).html_summary = ""

ToolLoopPcs == {"tool_call", "append_messages", "loop_head", "loop_chat"}

\* C40: a write_full_file with a document and an empty or missing
\* html_summary stores the document and ends the request (no tool call is
\* handled after it), and the stored summary and component map stay exactly
\* what they were, through to the end of the request, whatever component map
\* the call carries.
C40_WriteWithoutSummaryKeepsSummaryAndMap ==
    /\ [][\A r \in Runs :
             (run[r].pc = "tool_call" /\ WritesWithoutSummary(r) /\ run'[r] # run[r]) =>
                 /\ page'.html_content = RawCall(r).html
                 /\ page'.html_summary = page.html_summary
                 /\ page'.component_map = page.component_map
                 /\ run'[r].pc \notin ToolLoopPcs]_vars
    /\ [](\A r \in Runs :
             (run[r].path = "write_full_file" /\ WritesWithoutSummary(r)) =>
                 /\ page.html_content = RawCall(r).html
                 /\ page.html_summary = run[r].html_summary
                 /\ page.component_map = run[r].component_map
                 /\ run[r].pc \notin ToolLoopPcs)

\* a request has ended with a write_full_file that left html_summary out and
\* carried a component map: the document is the new one, the summary and
\* the map are the ones stored before
C40_Witness ==
    /\ run["r1"].pc = "done" /\ run["r1"].path = "write_full_file"
    /\ RawCall("r1") = WriteNoSummary
    /\ page.html_content = NewHtml
    /\ page.html_summary = StoredSummary
    /\ page.component_map = StoredMap /\ StoredMap # WriteNoSummary.component_map

=============================================================================
